---- MODULE Spec2Model ----
(***************************************************************************)
(* Model of the ReguGuard-AI compliance pipeline: the heuristic scorer,    *)
(* the per-section status/risk classification, the full-document report    *)
(* and its LLM fallback.  Python floats are modelled as fixed-point        *)
(* integers with FP units per 1.0; Python strings are TLA+ strings.        *)
(***************************************************************************)
EXTENDS Integers, Sequences, FiniteSets, TLC

\* ------------------------------------------------------------------------
\* Fixed-point arithmetic standing in for Python float / math.pow / math.exp
\* ------------------------------------------------------------------------

\* one unit (1.0) of the fixed-point representation of a Python float
FP == 10 * 1000

\* ln(2) in fixed point, used for range reduction in exp and ln
LN2 == (6931 * FP) \div 10000

Max(a, b) == IF a >= b THEN a ELSE b

Min(a, b) == IF a <= b THEN a ELSE b

\* a * b of two non-negative fixed-point numbers
Mul(a, b) == (a * b) \div FP

RECURSIVE Pow2(_)
Pow2(n) == IF n = 0 THEN 1 ELSE 2 * Pow2(n - 1)

\* Taylor series of e^-r in Horner form, 1 - r/k (1 - r/(k+1) (...)), for the
\* reduced argument r in [0, ln 2)
RECURSIVE ExpSeries(_, _)
ExpSeries(r, k) ==
    IF k > 10 THEN FP ELSE FP - (r * ExpSeries(r, k + 1)) \div (k * FP)

\* math.exp(-y) for y >= 0: e^-y = 2^-n * e^-r with y = n ln 2 + r
ExpNeg(y) ==
    LET n == y \div LN2
        r == y - n * LN2
    IN IF n > 24 THEN 0 ELSE ExpSeries(r, 1) \div Pow2(n)

\* number of doublings that bring x in 1..FP into (FP/2, FP]
RECURSIVE Doublings(_)
Doublings(x) == IF 2 * x > FP THEN 0 ELSE 1 + Doublings(2 * x)

\* atanh series 1/k + z^2 (1/(k+2) + z^2 (...)) in Horner form, z2 = z^2
RECURSIVE AtanhSeries(_, _)
AtanhSeries(z2, k) ==
    IF k > 9 THEN 0 ELSE FP \div k + Mul(z2, AtanhSeries(z2, k + 2))

\* -ln(x) for x in (0, 1]: x = m * 2^-e, -ln m = 2 atanh((1 - m) / (1 + m))
NegLn(x) ==
    LET e == Doublings(x)
        m == x * Pow2(e)
        z == ((FP - m) * FP) \div (FP + m)
    IN e * LN2 + 2 * Mul(z, AtanhSeries(Mul(z, z), 1))

\* math.pow(x, w) / x ** w for x >= 0 and w > 0 (both fixed point)
Pow(x, w) ==
    IF x = 0 THEN 0
    ELSE IF x <= FP THEN ExpNeg((w * NegLn(x)) \div FP)
    ELSE LET inv == ExpNeg((w * NegLn((FP * FP) \div x)) \div FP)
         IN (FP * FP) \div Max(1, inv)

\* round(): a fixed-point number to the nearest integer, ties to even
Round(v) ==
    LET q == v \div FP
        r == v % FP
    IN IF 2 * r > FP \/ (2 * r = FP /\ q % 2 = 1) THEN q + 1 ELSE q

\* max(0.0, min(1.0, x))
Clamp01(x) == Max(0, Min(FP, x))

\* ------------------------------------------------------------------------
\* Heuristic scorer (modules/compliance_analyzer.py)
\* ------------------------------------------------------------------------

\* the value of an absent (None) industry argument
NoIndustry == "<None>"

\* industry_weights: regulatory / language / completeness weight per industry
industry_weights ==
    [ Finance |-> [regulatory |-> 4500, language |-> 3000, completeness |-> 2500],
      Pharma_Healthcare |-> [regulatory |-> 5000, language |-> 2500, completeness |-> 2500],
      Education |-> [regulatory |-> 4000, language |-> 3000, completeness |-> 3000],
      Agriculture |-> [regulatory |-> 4000, language |-> 3000, completeness |-> 3000],
      Manufacturing |-> [regulatory |-> 3500, language |-> 3500, completeness |-> 3000],
      Technology |-> [regulatory |-> 4000, language |-> 3000, completeness |-> 3000],
      Retail |-> [regulatory |-> 3500, language |-> 3500, completeness |-> 3000],
      Energy |-> [regulatory |-> 4500, language |-> 3000, completeness |-> 2500],
      Construction |-> [regulatory |-> 4000, language |-> 3000, completeness |-> 3000],
      Legal |-> [regulatory |-> 4500, language |-> 3500, completeness |-> 2000],
      General |-> [regulatory |-> 4000, language |-> 3000, completeness |-> 3000] ]

\* the dictionary key of an industry name ("Pharma/Healthcare" is one key)
IndustryKey(industry) ==
    IF industry = "Pharma/Healthcare" THEN "Pharma_Healthcare" ELSE industry

\* industry_weights.get(industry, industry_weights["General"])
WeightsFor(industry) ==
    IF IndustryKey(industry) \in DOMAIN industry_weights
    THEN industry_weights[IndustryKey(industry)]
    ELSE industry_weights["General"]

\* a slip: the "ensure score is within bounds" line is dropped
ClampScoreDropped(final) == final

\* final_score = max(0, min(100, final_score)) on the fixed-point score
ClampScore(final) == Max(0, Min(100 * FP, final))

\* a slip: the risk discount is applied with the wrong sign
RiskAdjustWrongSign(saturation, risk_penalty) ==
    100 * Mul(saturation, FP + (4 * risk_penalty) \div 10)

\* risk_adjusted_score = base_score_scaled * (1 - risk_penalty * 0.4),
\* with base_score_scaled = 100 * saturation, saturation in [0, 1]
RiskAdjust(saturation, risk_penalty) ==
    100 * Mul(saturation, FP - (4 * risk_penalty) \div 10)

\* base_score: weighted geometric mean of the three clamped factors
BaseScore(ra, ls, cs, weights) ==
    Mul(Mul(Pow(ra, weights.regulatory), Pow(ls, weights.language)),
        Pow(cs, weights.completeness))

\* calculate_compliance_score(...): the 0-100 integer score
calculate_compliance_score(regulatory_alignment_score, language_strength_score, completeness_score, risk_penalty, industry, has_citations, has_enforceable_language, missing_critical_elements, total_elements_checked) ==
    LET weights == WeightsFor(industry)
        ra == Clamp01(regulatory_alignment_score)
        ls == Clamp01(language_strength_score)
        cs == Clamp01(completeness_score)
        rp == Clamp01(risk_penalty)
        base_score == BaseScore(ra, ls, cs, weights)
        saturation == IF base_score > 0 THEN FP - ExpNeg(2 * base_score) ELSE 0
        citation_bonus == IF has_citations THEN 3 * FP ELSE 0
        enforceable_bonus == IF has_enforceable_language THEN 2 * FP ELSE 0
        missing_ratio == (missing_critical_elements * FP) \div Max(1, total_elements_checked)
        completeness_penalty ==
            IF total_elements_checked > 0
            THEN 30 * Pow(missing_ratio, (15 * FP) \div 10)
            ELSE 0
        risk_adjusted_score == RiskAdjust(saturation, rp)
        final_score == risk_adjusted_score + citation_bonus + enforceable_bonus
                         - completeness_penalty
    IN Round(ClampScore(final_score))

\* ------------------------------------------------------------------------
\* Python str operations on TLA+ strings
\* ------------------------------------------------------------------------

\* the character at 1-based position i
CharAt(t, i) == SubSeq(t, i, i)

\* str.isspace() of one character
IsSpace(c) == c \in {" ", "\n", "\t", "\r"}

UpperCase == <<"A", "B", "C", "D", "E", "F", "G", "H", "I", "J", "K", "L", "M",
               "N", "O", "P", "Q", "R", "S", "T", "U", "V", "W", "X", "Y", "Z">>

LowerCase == <<"a", "b", "c", "d", "e", "f", "g", "h", "i", "j", "k", "l", "m",
               "n", "o", "p", "q", "r", "s", "t", "u", "v", "w", "x", "y", "z">>

IsUpper(c) == \E k \in 1..26 : UpperCase[k] = c

IsLower(c) == \E k \in 1..26 : LowerCase[k] = c

IsDigit(c) == c \in {"0", "1", "2", "3", "4", "5", "6", "7", "8", "9"}

LowerChar(c) ==
    IF IsUpper(c) THEN LowerCase[CHOOSE k \in 1..26 : UpperCase[k] = c] ELSE c

\* str.lower() of the characters at positions lo..hi, halving the range
RECURSIVE LowerRange(_, _, _)
LowerRange(t, lo, hi) ==
    IF lo > hi THEN ""
    ELSE IF lo = hi THEN LowerChar(CharAt(t, lo))
    ELSE LowerRange(t, lo, (lo + hi) \div 2) \o LowerRange(t, (lo + hi) \div 2 + 1, hi)

\* str.lower()
Lower(t) == LowerRange(t, 1, Len(t))

\* kw in t
Contains(t, kw) ==
    \E i \in 1..(Len(t) - Len(kw) + 1) : SubSeq(t, i, i + Len(kw) - 1) = kw

\* t.find(kw) as a 1-based position, 0 when absent
Find(t, kw) ==
    IF Contains(t, kw)
    THEN CHOOSE i \in 1..(Len(t) - Len(kw) + 1) :
            /\ SubSeq(t, i, i + Len(kw) - 1) = kw
            /\ \A j \in 1..(i - 1) : SubSeq(t, j, j + Len(kw) - 1) # kw
    ELSE 0

\* t.rfind(kw) as a 1-based position, 0 when absent
RFind(t, kw) ==
    IF Contains(t, kw)
    THEN CHOOSE i \in 1..(Len(t) - Len(kw) + 1) :
            /\ SubSeq(t, i, i + Len(kw) - 1) = kw
            /\ \A j \in (i + 1)..(Len(t) - Len(kw) + 1) : SubSeq(t, j, j + Len(kw) - 1) # kw
    ELSE 0

\* t.startswith(p)
StartsWith(t, p) == Len(t) >= Len(p) /\ SubSeq(t, 1, Len(p)) = p

\* first position >= i that holds a character outside `chars`, Len(t) + 1 if none
RECURSIVE SkipLeft(_, _, _)
SkipLeft(t, i, chars) ==
    IF i <= Len(t) /\ CharAt(t, i) \in chars THEN SkipLeft(t, i + 1, chars) ELSE i

\* last position <= i that holds a character outside `chars`, 0 if none
RECURSIVE SkipRight(_, _, _)
SkipRight(t, i, chars) ==
    IF i >= 1 /\ CharAt(t, i) \in chars THEN SkipRight(t, i - 1, chars) ELSE i

\* t.strip(chars)
StripChars(t, chars) == SubSeq(t, SkipLeft(t, 1, chars), SkipRight(t, Len(t), chars))

\* t.strip()
Strip(t) == StripChars(t, {" ", "\n", "\t", "\r"})

\* t[:n]
Prefix(t, n) == SubSeq(t, 1, Min(n, Len(t)))

\* len(t.split()): the number of whitespace-separated words
WordCount(t) ==
    Cardinality({ i \in 1..Len(t) :
        /\ ~IsSpace(CharAt(t, i))
        /\ (i = 1 \/ IsSpace(CharAt(t, i - 1))) })

\* sum(1 for kw in keywords if kw in t)
Hits(keywords, t) == Cardinality({ k \in 1..Len(keywords) : Contains(t, keywords[k]) })

\* any(kw in t for kw in keywords)
AnyHit(keywords, t) == \E k \in 1..Len(keywords) : Contains(t, keywords[k])

\* ------------------------------------------------------------------------
\* The four sub-scores (modules/compliance_analyzer.py)
\* ------------------------------------------------------------------------

\* sum(m.get("similarity_score", 0) for m in matches)
RECURSIVE SumSimilarity(_)
SumSimilarity(matches) ==
    IF matches = <<>> THEN 0
    ELSE Head(matches).similarity_score + SumSimilarity(Tail(matches))

\* sum(...) / len(matches) if matches else 0.0
AvgSimilarity(matches) ==
    IF matches = <<>> THEN 0 ELSE SumSimilarity(matches) \div Len(matches)

\* matches[0].get("similarity_score", 0.0) if matches else 0.0
TopSimilarity(matches) ==
    IF matches = <<>> THEN 0 ELSE matches[1].similarity_score

\* the alignment without the early return for an empty match list: the
\* weighted combination is computed with a neutral count score
AlignmentWithoutReturn(matched_regulations, avg_similarity, top_similarity) ==
    Min(FP, (5 * Min(FP, avg_similarity * 2)) \div 10
            + (3 * Min(FP, (top_similarity * 25) \div 10)) \div 10
            + (2 * Max(FP, (Len(matched_regulations) * FP) \div 5)) \div 10)

\* calculate_regulatory_alignment_score(matched_regulations, avg, top)
calculate_regulatory_alignment_score(matched_regulations, avg_similarity, top_similarity) ==
    IF Len(matched_regulations) = 0 THEN 0
    ELSE LET avg_score == Min(FP, avg_similarity * 2)
             top_score == Min(FP, (top_similarity * 25) \div 10)
             match_count_score == Min(FP, (Len(matched_regulations) * FP) \div 5)
             alignment_score == (5 * avg_score) \div 10 + (3 * top_score) \div 10
                                  + (2 * match_count_score) \div 10
         IN Min(FP, alignment_score)

strong_indicators ==
    <<"must", "shall", "required", "mandatory", "obligated", "comply with",
      "in accordance with", "pursuant to", "as mandated", "as required by",
      "per regulatory">>

moderate_indicators ==
    <<"should", "recommended", "expected", "advisable", "best practice",
      "guideline", "standard">>

weak_indicators ==
    <<"may", "optional", "when possible", "if applicable", "best effort",
      "consider", "where practicable">>

\* 1 / (1 + math.exp(-5 * (x - 0.3)))
Sigmoid(x) ==
    LET a == 5 * (x - (3 * FP) \div 10)
    IN IF a >= 0
       THEN (FP * FP) \div (FP + ExpNeg(a))
       ELSE (ExpNeg(-a) * FP) \div (FP + ExpNeg(-a))

\* min(cap, (count * factor) / word_count * 100)
Density(count, factor, word_count, cap) ==
    IF count = 0 THEN 0
    ELSE IF count * factor * 100 >= word_count THEN Min(cap, FP)
    ELSE Min(cap, (count * factor * 100 * FP) \div word_count)

\* calculate_language_strength_score(text)
calculate_language_strength_score(text) ==
    IF text = "" THEN 0
    ELSE LET text_lower == Lower(text)
             strong_count == Hits(strong_indicators, text_lower)
             moderate_count == Hits(moderate_indicators, text_lower)
             weak_count == Hits(weak_indicators, text_lower)
             word_count == WordCount(text)
             strong_density == Density(strong_count, 10, word_count, FP)
             moderate_density == Density(moderate_count, 5, word_count, (5 * FP) \div 10)
             weak_density == Density(weak_count, 3, word_count, (3 * FP) \div 10)
             language_score == strong_density + (3 * moderate_density) \div 10
                                 - (5 * weak_density) \div 10
         IN IF word_count = 0 THEN 0 ELSE Clamp01(Sigmoid(language_score))

universal_elements ==
    <<"responsible", "owner", "review", "audit", "approval", "procedure",
      "process", "documentation", "record">>

\* category_elements.get(category, [])
category_elements(category) ==
    CASE category = "Data Privacy" ->
           <<"consent", "breach", "notification", "retention", "deletion",
             "access", "privacy", "data protection", "gdpr", "hipaa">>
      [] category = "Health & Safety" ->
           <<"emergency", "ppe", "incident", "reporting", "training", "safety",
             "hazard", "risk assessment", "osha">>
      [] category = "Financial" ->
           <<"audit", "reporting", "internal control", "compliance", "record",
             "documentation", "review", "approval", "sec", "irs">>
      [] category = "Employment" ->
           <<"discrimination", "overtime", "leave", "termination", "policy",
             "procedure", "training", "dol", "flsa">>
      [] category = "Environmental" ->
           <<"waste", "disposal", "emission", "monitoring", "impact",
             "assessment", "spill", "response", "epa", "rcra">>
      [] category = "IT Security" ->
           <<"access control", "encryption", "incident response",
             "security audit", "cybersecurity", "nist", "cisa">>
      [] category = "Quality Control" ->
           <<"inspection", "non-conformance", "document control",
             "management review", "corrective action", "fda", "iso">>
      [] category = "Legal" ->
           <<"compliance review", "legal hold", "contract review",
             "record retention", "regulatory", "legal">>
      [] OTHER -> <<>>

\* calculate_completeness_score(text, category, matched_regulations)
calculate_completeness_score(text, category, matched_regulations) ==
    IF text = "" THEN 0
    ELSE LET text_lower == Lower(text)
             universal_found == Hits(universal_elements, text_lower)
             universal_total == Len(universal_elements)
             category_specific == category_elements(category)
             category_found == Hits(category_specific, text_lower)
             category_total == IF Len(category_specific) > 0 THEN Len(category_specific) ELSE 1
             universal_score == (universal_found * FP) \div universal_total
             category_score == (category_found * FP) \div category_total
             completeness_score == (6 * universal_score) \div 10 + (4 * category_score) \div 10
             boosted == IF Len(matched_regulations) > 0
                        THEN Min(FP, (completeness_score * 11) \div 10)
                        ELSE completeness_score
         IN Clamp01(boosted)

high_risk_indicators ==
    <<"outdated", "superseded", "deprecated", "no longer", "optional", "may",
      "when possible", "best effort">>

medium_risk_indicators == <<"should", "recommended", "consider", "if applicable">>

\* calculate_risk_penalty(text, matched_regulations, avg_similarity)
calculate_risk_penalty(text, matched_regulations, avg_similarity) ==
    IF text = "" THEN FP
    ELSE LET text_lower == Lower(text)
             high_risk_count == Hits(high_risk_indicators, text_lower)
             medium_risk_count == Hits(medium_risk_indicators, text_lower)
             word_count == WordCount(text)
             high_risk_density == Density(high_risk_count, 20, word_count, FP)
             medium_risk_density == Density(medium_risk_count, 10, word_count, (5 * FP) \div 10)
             risk_score == (7 * high_risk_density) \div 10 + (3 * medium_risk_density) \div 10
             alignment_penalty ==
                 IF Len(matched_regulations) = 0 THEN (5 * FP) \div 10
                 ELSE IF avg_similarity < FP \div 10 THEN (3 * FP) \div 10
                 ELSE 0
         IN IF word_count = 0 THEN FP ELSE Min(FP, risk_score + alignment_penalty)

\* ------------------------------------------------------------------------
\* Document segmenter (modules/sop_parser.py).  Offsets are 0-based as in
\* Python; a failed match is -1.
\* ------------------------------------------------------------------------

\* the character at 0-based offset o, "" past the end
At(t, o) == IF o >= 0 /\ o < Len(t) THEN SubSeq(t, o + 1, o + 1) ELSE ""

\* t[a:b] with 0-based offsets
Slice(t, a, b) == SubSeq(t, a + 1, b)

IsLetter(c) == IsUpper(c) \/ IsLower(c)

\* membership of one character in a regular-expression class: \s, \d,
\* [\d.] and, with re.IGNORECASE, [A-Z\s]
InClass(class, c) ==
    CASE class = "\\s" -> IsSpace(c)
      [] class = "\\d" -> IsDigit(c)
      [] class = "[\\d.]" -> IsDigit(c) \/ c = "."
      [] class = "[A-Z\\s]" -> IsLetter(c) \/ IsSpace(c)
      [] class = "\\w" -> IsLetter(c) \/ IsDigit(c) \/ c = "_"
      [] class = "\\n" -> c = "\n"
      [] class = "[^\\n]" -> c # "\n"
      [] class = "\\S" -> ~IsSpace(c)
      [] class = "[A-Za-z0-9]" -> IsLetter(c) \/ IsDigit(c)
      [] class = "[^A-Za-z0-9]" -> ~(IsLetter(c) \/ IsDigit(c))
      [] class = "[A-Za-z0-9\\-_/]" -> IsLetter(c) \/ IsDigit(c) \/ c \in {"-", "_", "/"}
      [] class = "[\\d.:\\s]" -> IsDigit(c) \/ c \in {".", ":"} \/ IsSpace(c)
      [] class = "[\\s.]" -> IsSpace(c) \/ c = "."
      [] class = "[\\s:]" -> IsSpace(c) \/ c = ":"

\* end of the longest run of characters of the class, starting at offset o
RunEnd(t, o, class) ==
    LET stops == { e \in o..(Len(t) - 1) : ~InClass(class, At(t, e)) }
    IN IF o < 0 THEN o
       ELSE IF stops = {} THEN Max(o, Len(t))
       ELSE CHOOSE e \in stops : \A f \in stops : e <= f

\* the offset after the first of the alternatives that t holds at offset o,
\* compared without case (re.IGNORECASE); -1 when none does
RECURSIVE AltEnd(_, _, _, _)
AltEnd(t, o, words, k) ==
    IF k > Len(words) THEN -1
    ELSE IF Lower(Slice(t, o, Min(Len(t), o + Len(words[k])))) = Lower(words[k])
         THEN o + Len(words[k])
         ELSE AltEnd(t, o, words, k + 1)

section_words ==
    <<"Section", "SECTION", "Clause", "CLAUSE", "Article", "ARTICLE", "Policy", "POLICY">>

heading_words ==
    <<"Purpose", "Scope", "Procedure", "Responsibility", "References",
      "Definitions", "Objective", "Compliance", "Policy Statement">>

\* \s*(?:Section|...|POLICY)\s*[\d.]+[:\s] matched at offset b
SectionNumberEnd(t, b) ==
    LET kw == AltEnd(t, RunEnd(t, b, "\\s"), section_words, 1)
        num == RunEnd(t, kw, "\\s")
        after == RunEnd(t, num, "[\\d.]")
    IN IF kw >= 0 /\ after > num /\ (At(t, after) = ":" \/ IsSpace(At(t, after)))
       THEN after + 1 ELSE -1

\* \s*\d+\.\d+[\s.] matched at offset b
DecimalNumberEnd(t, b) ==
    LET d1 == RunEnd(t, b, "\\s")
        dot == RunEnd(t, d1, "\\d")
        d2 == RunEnd(t, dot + 1, "\\d")
    IN IF dot > d1 /\ At(t, dot) = "." /\ d2 > dot + 1
          /\ (At(t, d2) = "." \/ IsSpace(At(t, d2)))
       THEN d2 + 1 ELSE -1

\* \s*\d+\)\s matched at offset b
ParenNumberEnd(t, b) ==
    LET d1 == RunEnd(t, b, "\\s")
        par == RunEnd(t, d1, "\\d")
    IN IF par > d1 /\ At(t, par) = ")" /\ IsSpace(At(t, par + 1))
       THEN par + 2 ELSE -1

\* the largest offset j in lo..hi that holds a newline, -1 when none does
LastNewline(t, lo, hi) ==
    LET at == { j \in lo..hi : At(t, j) = "\n" }
    IN IF at = {} THEN -1 ELSE CHOOSE j \in at : \A k \in at : j >= k

\* \s*[A-Z][A-Z\s]{5,}(?:\n) matched at offset b; with re.IGNORECASE the
\* class [A-Z] holds every letter, and the greedy run gives back characters
\* until the one that follows it is a newline
CapsLineEnd(t, b) ==
    LET first == RunEnd(t, b, "\\s")
        run == RunEnd(t, first + 1, "[A-Z\\s]")
        nl == LastNewline(t, first + 6, Min(run, Len(t) - 1))
    IN IF IsLetter(At(t, first)) /\ nl >= 0 THEN nl + 1 ELSE -1

\* \s*(?:Purpose|...|Policy Statement)\s*[:\n] matched at offset b
HeadingWordEnd(t, b) ==
    LET kw == AltEnd(t, RunEnd(t, b, "\\s"), heading_words, 1)
        ws == RunEnd(t, kw, "\\s")
        nl == LastNewline(t, kw, ws - 1)
    IN IF kw < 0 THEN -1
       ELSE IF At(t, ws) = ":" THEN ws + 1
       ELSE IF nl >= 0 THEN nl + 1
       ELSE -1

\* the end of pattern number k matched with its (?:^|\n) at offset o
PatternEnd(t, k, o) ==
    LET b == IF o = 0 /\ At(t, o) # "\n" THEN 0 ELSE o + 1
    IN IF ~(o = 0 \/ At(t, o) = "\n") THEN -1
       ELSE CASE k = 1 -> SectionNumberEnd(t, b)
              [] k = 2 -> DecimalNumberEnd(t, b)
              [] k = 3 -> ParenNumberEnd(t, b)
              [] k = 4 -> CapsLineEnd(t, b)
              [] k = 5 -> HeadingWordEnd(t, b)

\* sorted(S) of a set of integers
RECURSIVE Sorted(_)
Sorted(S) ==
    IF S = {} THEN <<>>
    ELSE LET m == CHOOSE x \in S : \A y \in S : x <= y
         IN <<m>> \o Sorted(S \ {m})

\* the offsets where (?:^|\n) can match, in increasing order
StartOffsets(t) == Sorted({0} \cup { o \in 0..(Len(t) - 1) : At(t, o) = "\n" })

\* the starts of re.finditer(pattern k, t): leftmost, non-overlapping matches;
\* a start inside the previous match (before offset `from`) is passed over
RECURSIVE FindIter(_, _, _, _, _)
FindIter(t, k, starts, i, from) ==
    IF i > Len(starts) THEN {}
    ELSE UNION { IF e >= 0 THEN {starts[i]} \cup FindIter(t, k, starts, i + 1, Max(e, starts[i] + 1))
                 ELSE FindIter(t, k, starts, i + 1, from)
                 : e \in { IF starts[i] >= from THEN PatternEnd(t, k, starts[i]) ELSE -1 } }

\* the match starts of every pattern, given the offsets where a match can start
SplitPointsFrom(t, starts) == UNION { FindIter(t, k, starts, 1, 0) : k \in 1..5 }

\* split_points: every match start of every pattern
SplitPoints(t) == SplitPointsFrom(t, StartOffsets(t))

\* text.split(sep)
RECURSIVE Split(_, _)
Split(t, sep) ==
    LET at == Find(t, sep)
    IN IF at = 0 THEN <<t>>
       ELSE <<SubSeq(t, 1, at - 1)>> \o Split(SubSeq(t, at + Len(sep), Len(t)), sep)

\* _extract_title(text)
extract_title(text) ==
    LET first_line == Strip(Split(text, "\n")[1])
        cut == IF Len(first_line) > 100 THEN Prefix(first_line, 97) \o "..." ELSE first_line
    IN IF cut # "" THEN cut ELSE "Untitled Clause"

\* CATEGORY_KEYWORDS, in dictionary order
CategoryOrder ==
    <<"Data Privacy", "Health & Safety", "Financial", "Employment",
      "Environmental", "IT Security", "Quality Control", "Legal">>

CATEGORY_KEYWORDS(category) ==
    CASE category = "Data Privacy" ->
           <<"data", "privacy", "personal information", "gdpr", "ccpa", "pii", "consent">>
      [] category = "Health & Safety" ->
           <<"health", "safety", "osha", "hazard", "ppe", "injury", "workplace safety">>
      [] category = "Financial" ->
           <<"financial", "accounting", "tax", "revenue", "audit", "fiscal", "budget">>
      [] category = "Employment" ->
           <<"employee", "hiring", "termination", "leave", "compensation", "hr",
             "human resources">>
      [] category = "Environmental" ->
           <<"environmental", "waste", "emission", "pollution", "epa", "sustainability">>
      [] category = "IT Security" ->
           <<"cybersecurity", "password", "encryption", "firewall", "access control",
             "it security">>
      [] category = "Quality Control" ->
           <<"quality", "inspection", "testing", "iso", "standard", "certification">>
      [] category = "Legal" ->
           <<"legal", "contract", "liability", "compliance", "regulation", "law">>

\* the loop of _categorize_clause from category number k on
RECURSIVE CategorizeFrom(_, _, _, _)
CategorizeFrom(text_lower, k, best_category, best_score) ==
    IF k > Len(CategoryOrder) THEN best_category
    ELSE LET score == Hits(CATEGORY_KEYWORDS(CategoryOrder[k]), text_lower)
         IN IF score > best_score
            THEN CategorizeFrom(text_lower, k + 1, CategoryOrder[k], score)
            ELSE CategorizeFrom(text_lower, k + 1, best_category, best_score)

\* _categorize_clause(text)
categorize_clause(text) == CategorizeFrom(Lower(text), 1, "General", 0)

\* f"CLAUSE-{n:03d}"
ClauseId(n) ==
    "CLAUSE-" \o (IF n < 10 THEN "00" ELSE IF n < 100 THEN "0" ELSE "") \o ToString(n)

MakeClause(n, chunk) ==
    [id |-> ClauseId(n), title |-> extract_title(chunk), text |-> chunk,
     category |-> categorize_clause(chunk)]

\* the blank-line fallback loop over paragraphs i..
RECURSIVE ParagraphClauses(_, _)
ParagraphClauses(paragraphs, i) ==
    IF i > Len(paragraphs) THEN <<>>
    ELSE LET para == Strip(paragraphs[i])
         IN (IF Len(para) > 30 THEN <<MakeClause(i, para)>> ELSE <<>>)
              \o ParagraphClauses(paragraphs, i + 1)

\* the loop over split points i.., given the clauses kept so far
RECURSIVE ChunkClauses(_, _, _, _)
ChunkClauses(raw_text, points, i, clauses) ==
    IF i > Len(points) THEN clauses
    ELSE LET start == points[i]
             end == IF i + 1 <= Len(points) THEN points[i + 1] ELSE Len(raw_text)
             chunk == Strip(Slice(raw_text, start, end))
         IN ChunkClauses(raw_text, points, i + 1,
                IF Len(chunk) > 20
                THEN Append(clauses, MakeClause(Len(clauses) + 1, chunk))
                ELSE clauses)

\* parse_sop_into_clauses(raw_text)
\* the branch without split points: the paragraphs longer than 30 characters,
\* or the whole document as one clause
ParagraphsOrDocument(raw_text, paragraphs) ==
    IF paragraphs # <<>> THEN paragraphs
    ELSE << [id |-> "CLAUSE-001", title |-> "Full Document",
             text |-> Strip(raw_text), category |-> "General"] >>

\* split_points = sorted(split_points), with 0 put first when it is missing
WithZero(sorted) == IF sorted[1] > 0 THEN <<0>> \o sorted ELSE sorted

\* the body of parse_sop_into_clauses once split_points is known
ClausesFrom(raw_text, split_points) ==
    IF split_points = {}
    THEN ParagraphsOrDocument(raw_text, ParagraphClauses(Split(raw_text, "\n\n"), 1))
    ELSE ChunkClauses(raw_text, WithZero(Sorted(split_points)), 1, <<>>)

\* parse_sop_into_clauses(raw_text)
parse_sop_into_clauses(raw_text) ==
    IF Strip(raw_text) = "" THEN <<>>
    ELSE ClausesFrom(raw_text, SplitPoints(raw_text))

\* ------------------------------------------------------------------------
\* Retrieval (modules/rag_engine.py).  The engine is a record of the fields
\* of RAGEngine; `fitted` holds the texts the vectorizer and tfidf_matrix
\* were last fitted on (NoMatrix while tfidf_matrix is None), and the
\* vocabulary, the idf weights and the rows are computed from them the way
\* TfidfVectorizer(stop_words="english", ngram_range=(1, 2)) does: lower-cased
\* \w\w+ tokens, stop words dropped, unigrams and bigrams, tf * smoothed idf,
\* l2-normalised; weights are in thousandths
\* ------------------------------------------------------------------------

\* an absent string argument (clause_category=None, ai_error=None)
None == "<None>"

\* tfidf_matrix = None; a fitted matrix has at least one row
NoMatrix == <<>>

\* rag_engine=None
NoEngine == [absent |-> TRUE]

\* the words of the vectorizer's English stop list that the documents and
\* regulations of this model use
english_stop_words ==
    { "the", "and", "of", "to", "in", "is", "it", "be", "by", "for", "on",
      "with", "that", "this", "are", "as", "at", "or", "an", "must", "may",
      "should", "before", "after", "all", "each", "every", "any", "not", "no",
      "when", "who", "which", "their", "its", "has", "have", "been", "will",
      "can", "if", "from", "also", "such", "these", "those", "within", "per",
      "than", "then", "there", "they", "them", "once", "only", "other",
      "where", "while", "would", "could", "might", "done", "keep", "full",
      "part", "system", "own" }

Range(s) == { s[k] : k \in 1..Len(s) }

\* the offsets where a \w run starts, and the offsets just past its end
WordStarts(t) ==
    Sorted({ o \in 0..(Len(t) - 1) :
                InClass("\\w", At(t, o)) /\ ~InClass("\\w", At(t, o - 1)) })

WordEnds(t) ==
    Sorted({ o \in 1..Len(t) :
                InClass("\\w", At(t, o - 1)) /\ ~InClass("\\w", At(t, o)) })

\* tokens of two or more characters, lower-cased, stop words removed
WordsBetween(low, starts, ends) ==
    SelectSeq([ k \in 1..Len(starts) |-> Slice(low, starts[k], ends[k]) ],
              LAMBDA w : Len(w) >= 2 /\ w \notin english_stop_words)

TokensOfLower(low) == WordsBetween(low, WordStarts(low), WordEnds(low))

Tokens(t) == TokensOfLower(Lower(t))

\* ngram_range=(1, 2): the tokens, then each pair of neighbours
Ngrams(tokens) ==
    tokens \o [ k \in 1..(Len(tokens) - 1) |-> tokens[k] \o " " \o tokens[k + 1] ]

Analyze(t) == Ngrams(Tokens(t))

\* floor of the square root (Newton's iteration from above)
RECURSIVE NewtonSqrt(_, _)
NewtonSqrt(n, x) ==
    LET y == (x + n \div x) \div 2
    IN IF y >= x THEN x ELSE NewtonSqrt(n, y)

IntSqrt(n) == IF n <= 0 THEN 0 ELSE NewtonSqrt(n, n)

RECURSIVE SumOver(_, _)
SumOver(f, S) ==
    IF S = {} THEN 0
    ELSE LET x == CHOOSE y \in S : TRUE IN f[x] + SumOver(f, S \ {x})

\* the fitted vectorizer: vocabulary and smoothed idf, ln((1 + n) / (1 + df)) + 1
Vocabulary(docs) == UNION { Range(docs[d]) : d \in 1..Len(docs) }

Idf(term, docs) ==
    LET n == Len(docs)
        df == Cardinality({ d \in 1..n : term \in Range(docs[d]) })
    IN (FP + NegLn(((1 + df) * FP) \div (1 + n))) \div 10

\* one tf-idf row before normalisation, over the vocabulary terms it holds
TfidfRow(terms, docs) ==
    [ term \in Range(terms) \cap Vocabulary(docs) |->
        Cardinality({ k \in 1..Len(terms) : terms[k] = term }) * Idf(term, docs) ]

RowNorm(row) == IntSqrt(SumOver([ term \in DOMAIN row |-> row[term] * row[term] ], DOMAIN row))

\* cosine_similarity of two rows, in units of 1/FP
Cosine(q, d) ==
    LET nq == RowNorm(q)
        nd == RowNorm(d)
        common == DOMAIN q \cap DOMAIN d
        dot == SumOver([ term \in common |-> q[term] * d[term] ], common)
    IN IF nq = 0 \/ nd = 0 THEN 0
       ELSE Min(FP, (((dot * 5) \div nq) * 2000) \div nd)

\* t[:n] of a list
Take(s, n) == SubSeq(s, 1, Min(n, Len(s)))

\* RAGEngine.__init__
NewEngine == [regulation_data |-> <<>>, regulation_texts |-> <<>>, fitted |-> NoMatrix]

\* f"{title} {text} {category}" of one regulation record
RegulationText(r) == r.title \o " " \o r.text \o " " \o r.category

\* indexing as a no-op for an empty list: the engine is left as it was
IndexSkippingEmpty(engine, regulations) ==
    IF regulations = <<>> THEN engine
    ELSE [ regulation_data |-> regulations,
           regulation_texts |-> [ k \in 1..Len(regulations) |-> RegulationText(regulations[k]) ],
           fitted |-> [ k \in 1..Len(regulations) |-> Analyze(RegulationText(regulations[k])) ] ]

\* RAGEngine.index_regulations: the fit is skipped for an empty list, which
\* leaves the previous matrix in place
index_regulations(engine, regulations) ==
    LET texts == [ k \in 1..Len(regulations) |-> RegulationText(regulations[k]) ]
    IN [ regulation_data |-> regulations,
         regulation_texts |-> texts,
         fitted |-> IF texts # <<>>
                    THEN [ k \in 1..Len(texts) |-> Analyze(texts[k]) ]
                    ELSE engine.fitted ]

\* min(1.0, x * 1.25 + 0.05)
Boost(s) == Min(FP, (s * 125) \div 100 + (5 * FP) \div 100)

\* the similarity of the query to every row, boosted for the rows of the
\* clause's category when a category is given
Similarities(engine, clause_text, clause_category) ==
    LET docs == engine.fitted
        q == TfidfRow(Analyze(clause_text), docs)
    IN [ idx \in 1..Len(docs) |->
            LET s == Cosine(q, TfidfRow(docs[idx], docs))
            IN IF /\ clause_category \notin {None, ""}
                  /\ engine.regulation_data[idx].category = clause_category
               THEN Boost(s) ELSE s ]

\* np.argsort(similarities)[::-1] for the short arrays of the model, where
\* the sort is stable: decreasing similarity, equal values in decreasing index
RECURSIVE ArgsortReversed(_, _)
ArgsortReversed(sims, left) ==
    IF left = {} THEN <<>>
    ELSE LET m == CHOOSE i \in left :
                    \A j \in left : sims[j] < sims[i] \/ (sims[j] = sims[i] /\ j <= i)
         IN <<m>> \o ArgsortReversed(sims, left \ {m})

\* the floor a similarity has to exceed, 0.03
SimilarityFloor == (3 * FP) \div 100

\* the results loop without its break at top_k results
ResultsUncut(engine, similarities, top_indices, top_k) ==
    LET kept == SelectSeq(top_indices, LAMBDA idx : similarities[idx] > SimilarityFloor)
    IN [ k \in 1..Len(kept) |->
           [ regulation |-> engine.regulation_data[kept[k]],
             similarity_score |-> similarities[kept[k]] ] ]

\* RAGEngine.retrieve_relevant_regulations
\* the results loop of retrieve_relevant_regulations over top_indices: the
\* indices above the floor, at most top_k of them
Results(engine, similarities, top_indices, top_k) ==
    LET kept == SelectSeq(top_indices, LAMBDA idx : similarities[idx] > SimilarityFloor)
    IN [ k \in 1..Min(top_k, Len(kept)) |->
           [ regulation |-> engine.regulation_data[kept[k]],
             similarity_score |-> similarities[kept[k]] ] ]

\* top_indices and the results, once the similarities are known
Ranked(engine, similarities, top_k) ==
    Results(engine, similarities,
            Take(ArgsortReversed(similarities, DOMAIN similarities), top_k * 2), top_k)

\* RAGEngine.retrieve_relevant_regulations
retrieve_relevant_regulations(engine, clause_text, clause_category, top_k) ==
    IF engine.regulation_texts = <<>> \/ engine.fitted = NoMatrix THEN <<>>
    ELSE Ranked(engine, Similarities(engine, clause_text, clause_category), top_k)

\* RAGEngine.match_all_clauses, for one clause
match_clause(engine, clause, top_k) ==
    retrieve_relevant_regulations(engine,
        clause.title \o " " \o clause.text \o " " \o clause.category,
        clause.category, top_k)

\* ------------------------------------------------------------------------
\* Industry detection (modules/compliance_analyzer.py)
\* ------------------------------------------------------------------------

industry_keywords ==
    << [industry |-> "Finance", keywords |->
          << "bank", "securities", "sec", "fdic", "financial reporting", "accounting",
             "tax compliance", "investment", "trading", "audit", "financial statement",
             "cfpb", "finra", "irs", "treasury", "capital", "loan", "credit", "mortgage",
             "compliance officer", "financial controls" >>],
       [industry |-> "Pharma/Healthcare", keywords |->
          << "fda", "pharmaceutical", "drug", "clinical trial", "medical device", "hipaa",
             "healthcare", "patient", "prescription", "gmp", "good manufacturing practice",
             "fda approval", "regulatory affairs", "pharmacy", "hospital", "medical",
             "health", "biotechnology", "biotech" >>],
       [industry |-> "Education", keywords |->
          << "education", "school", "university", "student", "ferpa", "curriculum",
             "academic", "accreditation", "educational institution", "campus", "tuition",
             "enrollment", "student data", "educational policy" >>],
       [industry |-> "Agriculture", keywords |->
          << "agriculture", "farming", "usda", "crop", "livestock", "food safety",
             "agricultural", "farm", "harvest", "agricultural standards", "organic",
             "pesticide", "fertilizer", "agricultural compliance" >>],
       [industry |-> "Manufacturing", keywords |->
          << "manufacturing", "production", "iso", "quality control", "production line",
             "industrial", "assembly", "factory", "manufacturing process",
             "production facility", "industrial safety" >>],
       [industry |-> "Technology", keywords |->
          << "software", "it security", "cybersecurity", "data center", "technology",
             "software development", "information technology", "cyber",
             "network security", "it infrastructure", "cloud computing" >>],
       [industry |-> "Retail", keywords |->
          << "retail", "consumer", "point of sale", "inventory", "retail store",
             "customer service", "merchandise", "retail operations", "consumer goods",
             "sales floor" >>],
       [industry |-> "Energy", keywords |->
          << "energy", "power", "oil", "gas", "renewable", "emissions", "epa",
             "power generation", "energy sector", "electricity", "petroleum", "nuclear",
             "solar", "wind energy" >>],
       [industry |-> "Construction", keywords |->
          << "construction", "building code", "osha construction", "construction site",
             "building", "construction safety", "construction project", "contractor",
             "construction standards" >>],
       [industry |-> "Legal", keywords |->
          << "legal compliance", "regulatory affairs", "contract", "legal procedure",
             "attorney", "legal department", "compliance legal", "regulatory compliance",
             "legal review" >>] >>

\* the method suffix with the failure reason left out
UnavailableSilent(ai_error) == ""

\* f" (AI unavailable: {ai_error})" if ai_error else ""
Unavailable(ai_error) ==
    IF ai_error \notin {None, ""} THEN " (AI unavailable: " \o ai_error \o ")" ELSE ""

\* _rule_based_detect_industry: the first industry of the table with the
\* highest keyword count
rule_based_detect_industry(full_text, ai_error) ==
    LET text_lower == Lower(full_text)
        score == [ k \in 1..Len(industry_keywords) |->
                     Hits(industry_keywords[k].keywords, text_lower) ]
        scored == { k \in DOMAIN score : score[k] > 0 }
    IN IF scored = {}
       THEN [ industry |-> "General", confidence |-> "Low",
              reason |-> "No specific industry indicators found. Document appears to be general-purpose."
                         \o Unavailable(ai_error) ]
       ELSE LET best == CHOOSE k \in scored :
                            \A j \in scored : score[j] < score[k] \/ (score[j] = score[k] /\ k <= j)
                max_score == score[best]
            IN [ industry |-> industry_keywords[best].industry,
                 confidence |-> IF max_score >= 5 THEN "High"
                                ELSE IF max_score >= 2 THEN "Medium" ELSE "Low",
                 reason |-> "Document contains " \o ToString(max_score)
                            \o " keyword(s) related to " \o industry_keywords[best].industry
                            \o " industry." \o Unavailable(ai_error) ]

\* detect_industry(full_text, use_ai=False)
detect_industry(full_text) ==
    IF full_text = "" \/ Strip(full_text) = ""
    THEN [ industry |-> "General", confidence |-> "Low",
           reason |-> "No text content available for industry detection." ]
    ELSE rule_based_detect_industry(full_text, None)

\* ------------------------------------------------------------------------
\* Full-document analysis (modules/compliance_analyzer.py)
\* ------------------------------------------------------------------------

\* sep.join(parts)
RECURSIVE Join(_, _)
Join(parts, sep) ==
    IF parts = <<>> THEN ""
    ELSE IF Len(parts) = 1 THEN parts[1]
    ELSE parts[1] \o sep \o Join(Tail(parts), sep)

\* t.replace(old, new)
Replace(t, old, new) == Join(Split(t, old), new)

\* _has_enforceable_language(txt)
has_enforceable_language(txt) ==
    AnyHit(<<" must ", " shall ", " required ", " ensure ", " will ">>, Lower(txt))

\* the end of the match of (?<=[.!?])\s+|\n+ at offset o, -1 when none
SentenceBreakEnd(t, o) ==
    IF At(t, o - 1) \in {".", "!", "?"} /\ IsSpace(At(t, o)) THEN RunEnd(t, o, "\\s")
    ELSE IF At(t, o) = "\n" THEN RunEnd(t, o, "\\n")
    ELSE -1

\* re.split on that pattern: the pieces between the leftmost,
\* non-overlapping matches, from offset `from` on
RECURSIVE SentenceSplit(_, _, _, _)
SentenceSplit(t, starts, i, from) ==
    IF i > Len(starts) THEN << Slice(t, from, Len(t)) >>
    ELSE IF starts[i] < from THEN SentenceSplit(t, starts, i + 1, from)
    ELSE << Slice(t, from, starts[i]) >>
         \o SentenceSplit(t, starts, i + 1, SentenceBreakEnd(t, starts[i]))

\* _extract_requirement_sentence(reg_text)
\* the loop over the parts of the stripped text t: the first part that holds
\* a requirement word, else the text on one line; cut to 260 characters
RequirementAmong(t, parts) ==
    LET words == <<"must", "shall", "required", "ensure", "provide", "maintain">>
        hit == { k \in 1..Len(parts) :
                   Strip(parts[k]) # "" /\ AnyHit(words, Lower(Strip(parts[k]))) }
    IN IF hit # {}
       THEN Prefix(Strip(parts[CHOOSE k \in hit : \A j \in hit : k <= j]), 260)
       ELSE Prefix(Replace(t, "\n", " "), 260)

\* re.split(r"(?<=[.!?])\s+|\n+", t)
SentenceParts(t) ==
    SentenceSplit(t, Sorted({ o \in 0..(Len(t) - 1) : SentenceBreakEnd(t, o) >= 0 }), 1, 0)

\* _extract_requirement_sentence on the stripped text
RequirementIn(t) == RequirementAmong(t, SentenceParts(t))

\* _extract_requirement_sentence(reg_text)
extract_requirement_sentence(reg_text) ==
    IF reg_text = "" THEN "" ELSE RequirementIn(Strip(reg_text))

\* the status, risk level, issue and suggestion of one section (the curly
\* quotes of the source are written as ')
SectionVerdict(clause_score, enforceable, matches, top_title, req_sentence) ==
    IF clause_score >= 75
    THEN [ status |-> "compliant", risk_level |-> "Low",
           issue |-> IF clause_score >= 85 THEN "None"
                     ELSE "Minor improvements possible for enhanced compliance.",
           suggestion |-> IF clause_score >= 85 THEN "No change needed"
                          ELSE "Consider adding more specific regulatory references for enhanced compliance." ]
    ELSE IF clause_score >= 50
    THEN [ status |-> "partially_compliant", risk_level |-> "Medium",
           issue |-> IF ~enforceable
                     THEN "Section is relevant to " \o top_title
                          \o " but uses weak/vague language (missing must/shall/required)."
                     ELSE "Section partially aligns with " \o top_title
                          \o "; some required elements appear missing or unclear.",
           suggestion |-> IF req_sentence # ""
                          THEN "Add an explicit requirement aligned with " \o top_title
                               \o ": '" \o req_sentence \o "'"
                          ELSE "Align this section more closely with " \o top_title
                               \o " and add enforceable requirements." ]
    ELSE [ status |-> "non_compliant", risk_level |-> "High",
           issue |-> IF matches = <<>>
                     THEN "No strong regulation match for this section; it may be missing specific compliance requirements."
                     ELSE "Section has weak alignment with relevant regulations (top match: "
                          \o top_title \o ").",
           suggestion |-> IF matches = <<>>
                          THEN "Add enforceable requirements (must/shall), reference the governing regulation, assign an owner, and define a review cadence."
                          ELSE IF req_sentence # ""
                          THEN "Update the section to include required elements from "
                               \o top_title \o ", for example: '" \o req_sentence \o "'"
                          ELSE "Update this section to include required elements from "
                               \o top_title \o "." ]

\* the titles of matches[:3], blank ones left out
Applicable(matches) ==
    LET first == Take(matches, 3)
        titles == [ k \in 1..Len(first) |-> Strip(first[k].regulation.title) ]
    IN SelectSeq(titles, LAMBDA t : t # "")

\* the citation records of a list of matches
Citations(matches) ==
    [ k \in 1..Len(matches) |->
        [ source |-> matches[k].regulation.source_name,
          url |-> matches[k].regulation.source_url,
          title |-> matches[k].regulation.title,
          relevance_score |-> matches[k].similarity_score ] ]

\* the matches one section is scored against: its own retrieval when an
\* engine is passed, else the first four document-level matches
SectionMatches(clause, matched_regs, rag_engine) ==
    IF rag_engine # NoEngine
    THEN retrieve_relevant_regulations(rag_engine,
            clause.title \o "\n" \o Prefix(clause.text, 1800), clause.category, 4)
    ELSE Take(matched_regs, 4)

\* the finding of one section with its text, score and matches
SectionEntry(clause, matches, clause_score, verdict) ==
    [ finding |-> [ area |-> Prefix(clause.title, 80),
                    status |-> verdict.status,
                    risk_level |-> verdict.risk_level,
                    issue |-> verdict.issue,
                    suggestion |-> verdict.suggestion,
                    applicable_regulations |-> Applicable(matches) ],
      text |-> clause.text,
      score |-> clause_score,
      matches |-> matches ]

\* top_title and top_text of the section loop
TopTitle(matches) ==
    IF matches # <<>> THEN matches[1].regulation.title ELSE "relevant regulation"

TopText(matches) == IF matches # <<>> THEN matches[1].regulation.text ELSE ""

\* the section loop from the verdict on, once clause_score is known
SectionJudged(clause, matches, enforceable, clause_score) ==
    SectionEntry(clause, matches, clause_score,
        SectionVerdict(clause_score, enforceable, matches, TopTitle(matches),
                       extract_requirement_sentence(TopText(matches))))

\* missing_critical of the section loop
MissingCritical(enforceable, matches, completeness) ==
    (IF ~enforceable THEN 1 ELSE 0)
    + (IF matches = <<>> THEN 1 ELSE 0)
    + (IF completeness < FP \div 2 THEN 2 ELSE 0)

\* the section loop from the scoring on, once the matches, their average
\* similarity, the enforceable-language test and the completeness are known
SectionRated(clause, matches, avg_sim, enforceable, completeness, detected_industry) ==
    SectionJudged(clause, matches, enforceable,
        calculate_compliance_score(
            calculate_regulatory_alignment_score(matches, avg_sim, TopSimilarity(matches)),
            calculate_language_strength_score(clause.text),
            completeness,
            calculate_risk_penalty(clause.text, matches, avg_sim),
            detected_industry, Len(matches) > 0, enforceable,
            MissingCritical(enforceable, matches, completeness), 8))

\* the section loop once the matches of the section are known
SectionScored(clause, matches, detected_industry) ==
    SectionRated(clause, matches, AvgSimilarity(matches),
                 has_enforceable_language(clause.text),
                 calculate_completeness_score(clause.text, clause.category, matches),
                 detected_industry)

\* one pass of the per-clause loop: the finding, the clause score and the
\* matches it was computed from
SectionResult(clause, matched_regs, rag_engine, detected_industry) ==
    SectionScored(clause, SectionMatches(clause, matched_regs, rag_engine), detected_industry)

\* sum(-ln(s / 100) for s in scores), for scores in 1..100
RECURSIVE SumNegLn(_)
SumNegLn(scores) ==
    IF scores = <<>> THEN 0
    ELSE NegLn((Head(scores) * FP) \div 100) + SumNegLn(Tail(scores))

RECURSIVE SumSeq(_)
SumSeq(s) == IF s = <<>> THEN 0 ELSE Head(s) + SumSeq(Tail(s))

\* the document score as the arithmetic mean of the section scores in every
\* case
SectionsScoreArithmetic(section_scores) ==
    Round((SumSeq(section_scores) * FP) \div Len(section_scores))

\* the document score over the section scores: the geometric mean when all
\* are positive, else the arithmetic mean; rounded
SectionsScore(section_scores) ==
    IF \A k \in 1..Len(section_scores) : section_scores[k] > 0
    THEN Round(100 * ExpNeg(SumNegLn(section_scores) \div Len(section_scores)))
    ELSE Round((SumSeq(section_scores) * FP) \div Len(section_scores))

\* the document-level score used when the segmenter returned no section
DocumentScore(full_text, matched_regs, detected_industry) ==
    LET avg == AvgSimilarity(matched_regs)
    IN calculate_compliance_score(
            calculate_regulatory_alignment_score(matched_regs, avg, TopSimilarity(matched_regs)),
            calculate_language_strength_score(full_text),
            calculate_completeness_score(full_text, "General", matched_regs),
            calculate_risk_penalty(full_text, matched_regs, avg),
            detected_industry, Len(matched_regs) > 0,
            has_enforceable_language(full_text), 0, 1)

\* sorted(citations, key=relevance_score, reverse=True): a stable sort, so
\* equal scores keep their order
RECURSIVE SortCitations(_)
SortCitations(cs) ==
    IF cs = <<>> THEN <<>>
    ELSE LET m == CHOOSE i \in 1..Len(cs) :
                    \A j \in 1..Len(cs) :
                        \/ cs[j].relevance_score < cs[i].relevance_score
                        \/ (cs[j].relevance_score = cs[i].relevance_score /\ i <= j)
         IN <<cs[m]>> \o SortCitations(SubSeq(cs, 1, m - 1) \o SubSeq(cs, m + 1, Len(cs)))

\* the first citation of each (url, title), at most ten
RECURSIVE Dedup(_, _, _)
Dedup(cs, seen, dedup) ==
    IF cs = <<>> \/ Len(dedup) >= 10 THEN dedup
    ELSE LET k == <<Head(cs).url, Head(cs).title>>
         IN IF k \in seen THEN Dedup(Tail(cs), seen, dedup)
            ELSE Dedup(Tail(cs), seen \cup {k}, Append(dedup, Head(cs)))

\* all_citations: the citations of matches[:2] of every section, in order
RECURSIVE AllCitations(_)
AllCitations(doc_sections) ==
    IF doc_sections = <<>> THEN <<>>
    ELSE Citations(Take(Head(doc_sections).matches, 2)) \o AllCitations(Tail(doc_sections))

\* the missing_elements heuristics over the lower-cased document
MissingElements(text_lower) ==
    (IF ~Contains(text_lower, "review") /\ ~Contains(text_lower, "audit")
     THEN <<"Review / audit cadence for policies">> ELSE <<>>)
    \o (IF ~Contains(text_lower, "responsible") /\ ~Contains(text_lower, "owner")
        THEN <<"Responsible owner / role assignments">> ELSE <<>>)
    \o (IF Contains(text_lower, "training") /\ ~Contains(text_lower, "frequency")
        THEN <<"Training frequency / documentation details">> ELSE <<>>)

\* the per-clause loop over clauses[:12]
SectionsOver(clauses, matched_regs, rag_engine, detected_industry) ==
    [ k \in 1..Len(clauses) |->
        SectionResult(clauses[k], matched_regs, rag_engine, detected_industry) ]

\* the segmentation, the industry detection and the loop
Sections(full_text, matched_regs, rag_engine) ==
    SectionsOver(Take(parse_sop_into_clauses(full_text), 12), matched_regs, rag_engine,
                 detect_industry(full_text).industry)

\* the report, once overall_score is known
ReportWith(doc_sections, full_text, ai_error, overall_score) ==
    LET overall_risk == IF overall_score >= 70 THEN "Low"
                        ELSE IF overall_score >= 45 THEN "Medium" ELSE "High"
        method == "Rule-based (section-based, RAG-matched)" \o Unavailable(ai_error)
    IN [ overall_score |-> overall_score,
         overall_risk_level |-> overall_risk,
         executive_summary |->
            "Document reviewed using " \o method
            \o ". Findings were generated per section by matching that section's text to the most relevant scraped regulations. "
            \o "Overall compliance is estimated at " \o ToString(overall_score)
            \o "% with " \o overall_risk \o " risk.",
         findings |-> [ k \in 1..Len(doc_sections) |-> doc_sections[k].finding ],
         missing_elements |-> MissingElements(Lower(full_text)),
         compliance_debt_estimate |-> (100 - overall_score) * 120,
         citations |-> Dedup(SortCitations(AllCitations(doc_sections)), {}, <<>>),
         analysis_method |-> method ]

\* overall_score: over the section scores, or for the document as a whole
\* when there is no section
OverallScore(section_scores, full_text, matched_regs) ==
    IF section_scores # <<>> THEN SectionsScore(section_scores)
    ELSE DocumentScore(full_text, matched_regs, detect_industry(full_text).industry)

\* the report assembled from the loop's results
ReportOf(doc_sections, full_text, matched_regs, ai_error) ==
    ReportWith(doc_sections, full_text, ai_error,
        OverallScore([ k \in 1..Len(doc_sections) |-> Max(0, Min(100, doc_sections[k].score)) ],
                     full_text, matched_regs))

\* the empty result with the document-level risk thresholds applied to a
\* missing score
EmptyResultUnrated(message) ==
    [ overall_score |-> 0,
      overall_risk_level |-> "Medium",
      executive_summary |-> message,
      findings |-> <<>>,
      missing_elements |-> <<>>,
      compliance_debt_estimate |-> 0,
      citations |-> <<>>,
      analysis_method |-> "None" ]

\* _empty_full_document_result(message)
empty_full_document_result(message) ==
    [ overall_score |-> 0,
      overall_risk_level |-> "High",
      executive_summary |-> message,
      findings |-> <<>>,
      missing_elements |-> <<>>,
      compliance_debt_estimate |-> 0,
      citations |-> <<>>,
      analysis_method |-> "None" ]

\* ------------------------------------------------------------------------
\* The regulations, corpora and documents of the model
\* ------------------------------------------------------------------------

\* regulation records as modules/regulation_scraper.py builds them
AccessRule ==
    [ source_name |-> "NIST", source_url |-> "https://nist.gov",
      category |-> "IT Security", title |-> "Access Control Rule",
      text |-> "Organizations must review access rights. Approval of access is recorded by the owner.",
      status |-> "active" ]

PrivacyRule ==
    [ source_name |-> "HHS", source_url |-> "https://hhs.gov",
      category |-> "Data Privacy", title |-> "Privacy Rule",
      text |-> "Entities must obtain consent and protect personal data.",
      status |-> "active" ]

RecordsRule ==
    [ source_name |-> "SEC", source_url |-> "https://sec.gov",
      category |-> "Legal", title |-> "Records Rule",
      text |-> "Entities shall retain records of approval for seven years.",
      status |-> "superseded" ]

Corpora == { <<>>, <<AccessRule, PrivacyRule>>, <<AccessRule, PrivacyRule, RecordsRule>> }

\* sections: a complete security section, an audited access section, a
\* reviewed access section, a privacy section without enforceable wording,
\* two sections that name outdated practice, and two that match no regulation
SecuritySection ==
    "Section 7: Security\nThe owner must review the access control policy, encryption standards, incident response plan and regular security audits, and record approval.\n"

AuditSection ==
    "Section 1: Access Control\nThe owner must review access rights and record approval of the audit procedure.\n"

ReviewSection ==
    "Section 1: Access Control\nEmployees must review access rights and the owner shall record approval.\n"

PrivacySection ==
    "Section 3: Data Privacy\nStaff obtain consent before personal data is collected.\n"

LegacySection ==
    "Section 2: Legacy Process\nThis procedure is superseded and deprecated; staff may follow it when possible.\n"

FormerSection ==
    "Section 6: Old Privacy Rule\nThe former privacy rule was replaced by the consent process; entities must obtain consent and protect personal data.\n"

VisitorsSection ==
    "Section 4: Visitors\nVisitors sign the book at the front desk on arrival.\n"

ParkingSection ==
    "Section 5: Parking\nCars are parked in the yard behind the main gate.\n"

BlankDocuments == { "", "  \n " }

Documents ==
    BlankDocuments \cup
    { SecuritySection, ReviewSection, PrivacySection, LegacySection,
      AuditSection \o FormerSection, VisitorsSection \o ParkingSection }

\* most index_regulations calls on one engine
MaxIndexings == 1

\* the engine states that up to n index_regulations calls can produce
RECURSIVE EnginesAfter(_)
EnginesAfter(n) ==
    IF n = 0 THEN {NewEngine}
    ELSE LET before == EnginesAfter(n - 1)
         IN before \cup { index_regulations(e, c) : e \in before, c \in Corpora }

EngineStates == EnginesAfter(MaxIndexings)

\* the rag_engine argument: an engine, or None
EngineArguments == EngineStates \cup {NoEngine}

\* ------------------------------------------------------------------------
\* analyze_full_document_compliance and the language-model path
\* ------------------------------------------------------------------------

\* full_text[:15000] if len(full_text) > 15000 else full_text
QueryText(full_text) == Prefix(full_text, 15000)

\* the document-level retrieval of analyze_full_document_compliance
DocumentMatches(full_text, rag_engine) ==
    IF rag_engine # NoEngine
    THEN retrieve_relevant_regulations(rag_engine, QueryText(full_text), None, 12)
    ELSE <<>>

\* DocumentMatches and Sections are pure; their values over the documents
\* and engines of the model are tabulated so that each is computed once
DocumentMatchesTable ==
    [ k \in EngineArguments \X Documents |-> DocumentMatches(k[2], k[1]) ]

DocumentMatchesOf(full_text, rag_engine) == DocumentMatchesTable[<<rag_engine, full_text>>]

\* the arguments the section loop is run with for a document and its matches:
\* with the engine, and without one
SectionKeys(full_text, matched_regs, rag_engine) ==
    { <<full_text, matched_regs, rag_engine>>, <<full_text, matched_regs, NoEngine>> }

SectionInputsOver(matches) ==
    UNION { SectionKeys(k[2], matches[k], k[1]) :
            k \in { k \in DOMAIN matches : k[2] \notin BlankDocuments } }

SectionInputs == SectionInputsOver(DocumentMatchesTable)

SectionsTable == [ k \in SectionInputs |-> Sections(k[1], k[2], k[3]) ]

SectionsOf(full_text, matched_regs, rag_engine) ==
    SectionsTable[<<full_text, matched_regs, rag_engine>>]

\* the report of _rule_based_full_document_analysis together with the
\* results of its section loop
RunOf(doc_sections, full_text, matched_regs, ai_error) ==
    [ report |-> ReportOf(doc_sections, full_text, matched_regs, ai_error),
      sections |-> doc_sections ]

RuleBasedRun(full_text, matched_regs, rag_engine, ai_error) ==
    RunOf(SectionsOf(full_text, matched_regs, rag_engine), full_text, matched_regs, ai_error)

\* _rule_based_full_document_analysis
rule_based_full_document_analysis(full_text, matched_regs, rag_engine, ai_error) ==
    RuleBasedRun(full_text, matched_regs, rag_engine, ai_error).report

\* the code-fence mark of a fenced reply (a backquote in the source), written ~
Fence == "~"

\* the JSON texts the language model of this model can return, and what
\* json.loads makes of them: an object, an array, or a JSONDecodeError
ReportJson ==
    "{\"overall_score\": 88, \"overall_risk_level\": \"Low\", \"executive_summary\": \"Sound.\", \"findings\": []}"

json_loads(text) ==
    CASE text = ReportJson ->
            [ ok |-> TRUE, type |-> "object", error |-> "",
              value |-> [ overall_score |-> 88, overall_risk_level |-> "Low",
                          executive_summary |-> "Sound.", findings |-> <<>> ] ]
      [] text = "{}" ->
            [ ok |-> TRUE, type |-> "object", error |-> "", value |-> <<>> ]
      [] text = "[]" ->
            [ ok |-> TRUE, type |-> "array", error |-> "", value |-> <<>> ]
      [] text = "{not json}" ->
            [ ok |-> FALSE, type |-> "", value |-> <<>>,
              error |-> "Expecting property name enclosed in double quotes: line 1 column 2 (char 1)" ]
      [] OTHER ->
            [ ok |-> FALSE, type |-> "", value |-> <<>>,
              error |-> "Expecting value: line 1 column 1 (char 0)" ]

\* d[key] = v and d.setdefault(key, v) on a dict held as a function
SetItem(d, key, v) == (key :> v) @@ d

SetDefault(d, key, v) == IF key \in DOMAIN d THEN d ELSE d @@ (key :> v)

\* the behaviours of the language model: no client (no API key), a call
\* that raises with a message, a call that replies with a text
NoClient == [kind |-> "unconfigured", text |-> ""]

Raises(message) == [kind |-> "raises", text |-> message]

Replies(content) == [kind |-> "replies", text |-> content]

LLMBehaviours ==
    { NoClient,
      Raises("Connection error."),
      Raises(""),
      Raises("Error code: 429 - rate limit exceeded for model grok-3-mini, retry after 30 seconds or lower the request rate"),
      Replies(ReportJson),
      Replies(Fence \o Fence \o Fence \o "json\n" \o ReportJson \o "\n" \o Fence \o Fence \o Fence),
      Replies("Here is the report: " \o ReportJson \o " Let me know."),
      Replies("{}"),
      Replies("[]"),
      Replies("{not json}"),
      Replies("I cannot help with that.") }

\* content.strip().strip("`").strip(), then a leading "json" dropped
ReplyText(content) ==
    LET text == Strip(StripChars(Strip(content), {Fence}))
    IN IF StartsWith(text, "json") THEN Strip(SubSeq(text, 5, Len(text))) ELSE text

\* _ai_full_document_analysis from json.loads on, given the stripped reply
\* and the run of _rule_based_full_document_analysis(full_text, matched_regs,
\* ai_error="Invalid JSON") that the function returns when the reply holds no
\* braces
ParsedReply(text, matched_regs, invalid_json_run) ==
    LET citations == Citations(Take(matched_regs, 10))
        first == json_loads(text)
        start == Find(text, "{") - 1
        end == RFind(text, "}")
        second == json_loads(Slice(text, start, end))
        parsed == IF first.ok THEN first ELSE second
    IN IF ~first.ok /\ ~(start >= 0 /\ end > start)
       THEN [ raised |-> FALSE, error |-> "", report |-> invalid_json_run.report,
              sections |-> invalid_json_run.sections, path |-> "invalid_json" ]
       ELSE IF ~parsed.ok
       THEN [ raised |-> TRUE, error |-> parsed.error, report |-> <<>>,
              sections |-> <<>>, path |-> "raised" ]
       ELSE IF parsed.type # "object"
       THEN [ raised |-> TRUE, error |-> "list indices must be integers or slices, not str",
              report |-> <<>>, sections |-> <<>>, path |-> "raised" ]
       ELSE [ raised |-> FALSE, error |-> "",
              report |->
                SetDefault(SetDefault(SetDefault(SetDefault(
                    SetItem(parsed.value, "citations", citations),
                    "findings", <<>>),
                    "missing_elements", <<>>),
                    "executive_summary", "Full-document compliance analysis completed."),
                    "compliance_debt_estimate", 0),
              sections |-> <<>>, path |-> "ai" ]

\* _ai_full_document_analysis after the call returned `content`: the report,
\* or the exception text when it raises
ai_full_document_analysis(content, full_text, matched_regs) ==
    ParsedReply(ReplyText(content), matched_regs,
                RuleBasedRun(full_text, matched_regs, NoEngine, "Invalid JSON"))

\* the try block of analyze_full_document_compliance: not entered without
\* use_ai or without a client, else the call raises or returns
Attempt(full_text, matched_regs, use_ai, llm) ==
    IF ~(use_ai /\ llm.kind # "unconfigured")
    THEN [ tried |-> FALSE, raised |-> FALSE, error |-> "", report |-> <<>>,
           sections |-> <<>>, path |-> "" ]
    ELSE IF llm.kind = "raises"
    THEN [ tried |-> TRUE, raised |-> TRUE, error |-> llm.text, report |-> <<>>,
           sections |-> <<>>, path |-> "raised" ]
    ELSE [ tried |-> TRUE ] @@ ai_full_document_analysis(llm.text, full_text, matched_regs)

\* a rule-based return of analyze_full_document_compliance, with what the
\* call did on the way: the sections of the loop and the retriever calls
OutcomeOf(run, rag_engine, ai_error, llm_calls) ==
    [ raised |-> FALSE,
      report |-> run.report,
      sections |-> run.sections,
      path |-> IF ai_error = None THEN "rule_based" ELSE "fallback",
      retriever_calls |-> IF rag_engine # NoEngine THEN 1 + Len(run.sections) ELSE 0,
      llm_calls |-> llm_calls ]

RuleBasedOutcome(full_text, matched_regs, rag_engine, ai_error, llm_calls) ==
    OutcomeOf(RuleBasedRun(full_text, matched_regs, rag_engine, ai_error),
              rag_engine, ai_error, llm_calls)

\* what analyze_full_document_compliance returns after the try block: the
\* report of the language-model path, or the rule-based report with the
\* engine, carrying str(e)[:80] when the try block raised
Concluded(full_text, matched_regs, rag_engine, ai) ==
    IF ai.tried /\ ~ai.raised
    THEN [ raised |-> FALSE, report |-> ai.report, sections |-> ai.sections,
           path |-> ai.path,
           retriever_calls |-> IF rag_engine # NoEngine THEN 1 ELSE 0,
           llm_calls |-> 1 ]
    ELSE RuleBasedOutcome(full_text, matched_regs, rag_engine,
                          IF ai.tried THEN Prefix(ai.error, 80) ELSE None,
                          IF ai.tried THEN 1 ELSE 0)

\* analyze_full_document_compliance once matched_regs is retrieved
AnalyzedWith(full_text, matched_regs, rag_engine, use_ai, llm) ==
    Concluded(full_text, matched_regs, rag_engine,
              Attempt(full_text, matched_regs, use_ai, llm))

\* analyze_full_document_compliance(full_text, regulations, rag_engine, use_ai)
\* under a behaviour of the language model; `regulations` is not read by the
\* function and is left out
analyze_full_document_compliance(full_text, rag_engine, use_ai, llm) ==
    IF full_text = "" \/ Strip(full_text) = ""
    THEN [ raised |-> FALSE,
           report |-> empty_full_document_result("No document text to analyze."),
           sections |-> <<>>, path |-> "empty",
           retriever_calls |-> 0, llm_calls |-> 0 ]
    ELSE AnalyzedWith(full_text, DocumentMatchesOf(full_text, rag_engine), rag_engine,
                      use_ai, llm)

\* ------------------------------------------------------------------------
\* Clause-level analysis (modules/compliance_analyzer.py)
\* ------------------------------------------------------------------------

outdated_indicators ==
    << "superseded", "replaced by", "no longer", "deprecated",
       "previous version", "old standard", "former", "legacy" >>

category_requirements(category) ==
    CASE category = "Data Privacy" ->
            << "explicit consent mechanisms", "data breach notification procedures",
               "data retention policy", "right to deletion process" >>
      [] category = "Health & Safety" ->
            << "emergency procedures", "PPE requirements", "incident reporting",
               "safety training schedule" >>
      [] category = "Financial" ->
            << "audit trail requirements", "tax filing schedule",
               "financial reporting standards", "internal controls" >>
      [] category = "Employment" ->
            << "anti-discrimination policy", "overtime calculation method",
               "leave policy details", "termination procedures" >>
      [] category = "Environmental" ->
            << "waste disposal procedures", "emission monitoring",
               "environmental impact assessment", "spill response plan" >>
      [] category = "IT Security" ->
            << "access control policy", "encryption standards",
               "incident response plan", "regular security audits" >>
      [] category = "Quality Control" ->
            << "inspection procedures", "non-conformance handling", "document control",
               "management review" >>
      [] category = "Legal" ->
            << "regulatory compliance review schedule", "legal hold procedures",
               "contract review process", "record retention policy" >>
      [] OTHER -> <<>>

\* the requirements looked for when the category has none of its own
default_requirements ==
    << "regulatory reference", "review schedule", "responsible party designation" >>

\* x rendered as f"{x:.2f}"
Format2(x) ==
    LET cents == Round(x * 100)
        frac == cents % 100
    IN ToString(cents \div 100) \o "." \o (IF frac < 10 THEN "0" ELSE "") \o ToString(frac)

\* _generate_suggestion(clause, status, missing, category)
generate_suggestion(status, missing, category) ==
    IF status = "compliant"
    THEN "No correction needed. Clause appears compliant with current regulations."
    ELSE "Revise this " \o category \o " clause to include: "
         \o (IF missing # <<>> THEN Join(Take(missing, 3), ", ") \o ". " ELSE "")
         \o "Ensure explicit references to applicable regulatory frameworks and include specific compliance measures with designated responsible parties and review schedules."

\* the clause thresholds with the partially_compliant band widened to 40
ClauseVerdictLoose(outdated_score, score, has_matches) ==
    IF outdated_score >= 2 THEN [status |-> "outdated", risk_level |-> "High"]
    ELSE IF score >= 75 THEN [status |-> "compliant", risk_level |-> "Low"]
    ELSE IF score >= 40 THEN [status |-> "partially_compliant", risk_level |-> "Medium"]
    ELSE [ status |-> "non_compliant",
           risk_level |-> IF ~has_matches THEN "High" ELSE "Medium" ]

\* the status and risk level of one clause result
ClauseVerdict(outdated_score, score, has_matches) ==
    IF outdated_score >= 2 THEN [status |-> "outdated", risk_level |-> "High"]
    ELSE IF score >= 75 THEN [status |-> "compliant", risk_level |-> "Low"]
    ELSE IF score >= 50 THEN [status |-> "partially_compliant", risk_level |-> "Medium"]
    ELSE [ status |-> "non_compliant",
           risk_level |-> IF ~has_matches THEN "High" ELSE "Medium" ]

\* the scoring part of _rule_based_analyze: the missing requirements, the
\* outdated-keyword count, the sub-scores and the score
ClauseScoring(clause, matched_regulations) ==
    LET clause_text == clause.text
        text_lower == Lower(clause_text)
        category == clause.category
        own == category_requirements(category)
        looked_for == IF own # <<>> THEN own ELSE default_requirements
        squeezed == Replace(text_lower, " ", "")
        missing == SelectSeq(looked_for,
                      LAMBDA req : ~Contains(squeezed, Replace(Lower(req), " ", "")))
        has_matches == Len(matched_regulations) > 0
        avg_similarity == AvgSimilarity(matched_regulations)
        top_similarity == TopSimilarity(matched_regulations)
        outdated_score == Hits(outdated_indicators, text_lower)
        regulatory_alignment ==
            IF outdated_score >= 2 THEN FP \div 10
            ELSE calculate_regulatory_alignment_score(matched_regulations,
                                                      avg_similarity, top_similarity)
        language_strength ==
            IF outdated_score >= 2 THEN FP \div 10
            ELSE calculate_language_strength_score(clause_text)
        completeness ==
            IF outdated_score >= 2 THEN (2 * FP) \div 10
            ELSE calculate_completeness_score(clause_text, category, matched_regulations)
        risk_penalty ==
            IF outdated_score >= 2 THEN (9 * FP) \div 10
            ELSE calculate_risk_penalty(clause_text, matched_regulations, avg_similarity)
    IN [ missing |-> missing,
         outdated_score |-> outdated_score,
         regulatory_alignment |-> regulatory_alignment,
         language_strength |-> language_strength,
         completeness |-> completeness,
         score |-> calculate_compliance_score(regulatory_alignment, language_strength,
                      completeness, risk_penalty, "General", has_matches,
                      AnyHit(<<"must", "shall", "required", "mandatory">>, text_lower),
                      Len(missing), Max(Len(own), 1)) ]

\* parse_sop_into_clauses, match_all_clauses and ClauseScoring are pure;
\* their values over the documents and engines of the model are tabulated
ClausesTable == [ d \in Documents |-> parse_sop_into_clauses(d) ]

ClausesOf(full_text) == ClausesTable[full_text]

ClausesIn(table) == UNION { Range(table[d]) : d \in DOMAIN table }

ModelClauses == ClausesIn(ClausesTable)

ClauseMatchesTable ==
    [ k \in EngineStates \X ModelClauses |-> match_clause(k[1], k[2], 8) ]

\* a clause with the matches an engine returns for it, and with none
ClauseInputsOver(matches) ==
    { <<k[2], matches[k]>> : k \in DOMAIN matches }
    \cup { <<k[2], <<>> >> : k \in DOMAIN matches }

ClauseInputs == ClauseInputsOver(ClauseMatchesTable)

ClauseScoringTable == [ k \in ClauseInputs |-> ClauseScoring(k[1], k[2]) ]

ClauseScoringOf(clause, matched_regulations) ==
    ClauseScoringTable[<<clause, matched_regulations>>]

\* the result _rule_based_analyze builds from its scoring s
ClauseResult(s, clause, matched_regulations, ai_error) ==
    LET category == clause.category
        score == s.score
        verdict == ClauseVerdict(s.outdated_score, score, Len(matched_regulations) > 0)
        status == verdict.status
        first == Take(matched_regulations, 5)
        method == "Rule-based Analysis"
                  \o (IF ai_error \notin {None, ""}
                      THEN " (AI unavailable: " \o Prefix(ai_error, 80) \o ")" ELSE "")
    IN [ clause_id |-> clause.id,
         compliance_status |-> status,
         risk_level |-> verdict.risk_level,
         compliance_score |-> score,
         summary |-> "Clause analyzed using " \o method \o ". Status: " \o status
                     \o ". The clause "
                     \o (IF score > 60 THEN "aligns with" ELSE "needs improvement to meet")
                     \o " current regulatory requirements for " \o category \o ".",
         missing_elements |-> Take(s.missing, 5),
         suggested_correction |-> generate_suggestion(status, s.missing, category),
         reasoning |-> "Based on dynamic compliance scoring (regulatory alignment: "
                       \o Format2(s.regulatory_alignment) \o ", language strength: "
                       \o Format2(s.language_strength) \o ", completeness: "
                       \o Format2(s.completeness) \o "), this clause shows "
                       \o Replace(status, "_", " ") \o " characteristics with a score of "
                       \o ToString(score) \o ".",
         applicable_regulations |-> [ k \in 1..Len(first) |-> first[k].regulation.title ],
         citations |-> Citations(first),
         analysis_method |-> method ]

\* _rule_based_analyze(clause, matched_regulations, ai_error)
rule_based_analyze(clause, matched_regulations, ai_error) ==
    ClauseResult(ClauseScoringOf(clause, matched_regulations), clause,
                 matched_regulations, ai_error)

\* content.strip().strip("`"), a leading "json" dropped, then .strip()
ClauseReplyText(content) ==
    LET text == StripChars(Strip(content), {Fence})
    IN Strip(IF StartsWith(text, "json") THEN SubSeq(text, 5, Len(text)) ELSE text)

\* _ai_analyze from json.loads on, given the stripped reply and the result of
\* _rule_based_analyze(clause, matched_regulations, "Invalid JSON response")
\* that the function returns when the reply holds no braces
ParsedClauseReply(text, clause, matched_regulations, invalid_json_result) ==
    LET first == json_loads(text)
        start == Find(text, "{") - 1
        end == RFind(text, "}")
        second == json_loads(Slice(text, start, end))
        parsed == IF first.ok THEN first ELSE second
    IN IF ~first.ok /\ ~(start >= 0 /\ end > start)
       THEN [ raised |-> FALSE, error |-> "", path |-> "invalid_json",
              result |-> invalid_json_result ]
       ELSE IF ~parsed.ok
       THEN [ raised |-> TRUE, error |-> parsed.error, path |-> "raised", result |-> <<>> ]
       ELSE IF parsed.type # "object"
       THEN [ raised |-> TRUE, error |-> "list indices must be integers or slices, not str",
              path |-> "raised", result |-> <<>> ]
       ELSE [ raised |-> FALSE, error |-> "", path |-> "ai",
              result |-> SetItem(SetItem(SetItem(parsed.value,
                            "citations", Citations(Take(matched_regulations, 5))),
                            "analysis_method", "AI (Grok)"),
                            "clause_id", clause.id) ]

\* _ai_analyze after the call returned `content`
ai_analyze(content, clause, matched_regulations) ==
    ParsedClauseReply(ClauseReplyText(content), clause, matched_regulations,
        rule_based_analyze(clause, matched_regulations, "Invalid JSON response"))

\* the try block of analyze_clause_compliance: not entered without use_ai or
\* without a client, else the call raises or returns
ClauseAttempt(clause, matched_regulations, use_ai, llm) ==
    IF ~(use_ai /\ llm.kind # "unconfigured")
    THEN [ tried |-> FALSE, raised |-> FALSE, error |-> "", path |-> "", result |-> <<>> ]
    ELSE IF llm.kind = "raises"
    THEN [ tried |-> TRUE, raised |-> TRUE, error |-> llm.text, path |-> "raised",
           result |-> <<>> ]
    ELSE [ tried |-> TRUE ] @@ ai_analyze(llm.text, clause, matched_regulations)

\* what analyze_clause_compliance returns after the try block: the result of
\* the language-model path, or the rule-based result, carrying str(e)[:80]
\* when the try block raised
ClauseConcluded(clause, matched_regulations, ai) ==
    IF ai.tried /\ ~ai.raised
    THEN [ result |-> ai.result, path |-> ai.path, llm_calls |-> 1 ]
    ELSE [ result |-> rule_based_analyze(clause, matched_regulations,
                          IF ai.tried THEN Prefix(ai.error, 80) ELSE None),
           path |-> IF ai.tried THEN "fallback" ELSE "rule_based",
           llm_calls |-> IF ai.tried THEN 1 ELSE 0 ]

\* analyze_clause_compliance(clause, matched_regulations, use_ai) under a
\* behaviour of the language model
analyze_clause_compliance(clause, matched_regulations, use_ai, llm) ==
    ClauseConcluded(clause, matched_regulations,
                    ClauseAttempt(clause, matched_regulations, use_ai, llm))

\* ------------------------------------------------------------------------
\* State
\* ------------------------------------------------------------------------

VARIABLES
    sarg,       \* arguments of the latest calculate_compliance_score call
    sscore,     \* the score that call returned
    slast,      \* which factor the latest call raised, and the score before
    rag,        \* the RAGEngine object
    indexings,  \* index_regulations calls made on it
    call,       \* the latest analysis call and its arguments
    result,     \* what that call returned
    trace,      \* what it did on the way: path taken, retriever and LLM calls
    sections,   \* the values of the per-section loop of that call
    history_file, \* data/analysis_history.jsonl: its lines, or no file
    host,       \* the process: its clock and the str hash of this run
    session     \* st.session_state of the results page

scoreVars == <<sarg, sscore, slast>>

analysisVars == <<rag, indexings, call, result, trace, sections>>

appVars == <<history_file, host, session>>

vars == <<sarg, sscore, slast, rag, indexings, call, result, trace, sections, history_file, host, session>>

\* no call yet
Idle == [op |-> "none"]

\* os.path.exists(HISTORY_FILE) is False
NoFile == [absent |-> TRUE]

\* the history file, the clock and the session play no part
AppUnused == history_file = NoFile /\ host = Idle /\ session = Idle

\* ------------------------------------------------------------------------
\* The scorer applied to bounded inputs
\* ------------------------------------------------------------------------

\* number of steps of the sub-score grid over [0, 1]
ScoreGrid == 2

\* largest total_elements_checked drawn
MaxElements == 2

SubScores == { (k * FP) \div ScoreGrid : k \in 0..ScoreGrid }

\* one industry per distinct row of the weight table (the other six keys
\* repeat the Finance, Manufacturing or General row), a name that is not a
\* key, and None
IndustryInputs ==
    { "Finance", "Pharma/Healthcare", "Manufacturing", "Legal", "General",
      "Aerospace", NoIndustry }

ScoreArgs ==
    { a \in [ regulatory : SubScores, language : SubScores, completeness : SubScores,
              risk : SubScores, industry : IndustryInputs,
              citations : BOOLEAN, enforceable : BOOLEAN,
              missing : 0..MaxElements, total : 0..MaxElements ] :
        a.missing <= a.total }

ScoreOf(a) ==
    calculate_compliance_score(a.regulatory, a.language, a.completeness, a.risk,
                               a.industry, a.citations, a.enforceable,
                               a.missing, a.total)

ScoreInit ==
    /\ sarg \in ScoreArgs
    /\ sscore = ScoreOf(sarg)
    /\ slast = [factor |-> "none", before |-> sscore]
    /\ rag = NewEngine
    /\ indexings = 0
    /\ call = Idle
    /\ result = Idle
    /\ trace = Idle
    /\ sections = <<>>
    /\ AppUnused

\* the call repeated on the drawn arguments with one factor raised and
\* everything else held fixed
Raise(factor) ==
    \E v \in SubScores :
        /\ slast.factor = "none"
        /\ v > sarg[factor]
        /\ sarg' = [sarg EXCEPT ![factor] = v]
        /\ sscore' = ScoreOf(sarg')
        /\ slast' = [factor |-> factor, before |-> sscore]
        /\ UNCHANGED <<analysisVars, appVars>>

RaiseRegulatory == Raise("regulatory")

RaiseLanguage == Raise("language")

RaiseCompleteness == Raise("completeness")

RaiseRisk == Raise("risk")

ScoreNext == RaiseRegulatory \/ RaiseLanguage \/ RaiseCompleteness \/ RaiseRisk

ScoreSpec == ScoreInit /\ [][ScoreNext]_vars

\* ------------------------------------------------------------------------
\* The analysis session: an engine is created and indexed, then a document
\* or one of its clauses is analysed (app.py render_analysis)
\* ------------------------------------------------------------------------

Init ==
    /\ rag = NewEngine
    /\ indexings = 0
    /\ call = Idle
    /\ result = Idle
    /\ trace = Idle
    /\ sections = <<>>
    /\ AppUnused
    /\ sarg = Idle
    /\ sscore = 0
    /\ slast = Idle

\* rag.index_regulations(regulations)
IndexRegulations ==
    \E regulations \in Corpora :
        /\ call = Idle
        /\ indexings < MaxIndexings
        /\ rag' = index_regulations(rag, regulations)
        /\ indexings' = indexings + 1
        /\ UNCHANGED <<call, result, trace, sections, scoreVars, appVars>>

\* the state after analyze_full_document_compliance returned
Returned(full_text, with_engine, use_ai, llm) ==
    \E out \in { analyze_full_document_compliance(full_text,
                    IF with_engine THEN rag ELSE NoEngine, use_ai, llm) } :
       /\ call' = [ op |-> "full", full_text |-> full_text, with_engine |-> with_engine,
                    use_ai |-> use_ai, llm |-> llm ]
       /\ result' = out.report
       /\ trace' = [ path |-> out.path, raised |-> out.raised,
                     retriever_calls |-> out.retriever_calls,
                     llm_calls |-> out.llm_calls ]
       /\ sections' = out.sections
       /\ UNCHANGED <<rag, indexings, scoreVars, appVars>>

\* analyze_full_document_compliance(full_text, regulations, rag_engine, use_ai)
AnalyzeFullDocument ==
    \E full_text \in Documents, with_engine \in BOOLEAN, use_ai \in BOOLEAN,
       llm \in LLMBehaviours :
        /\ call = Idle
        /\ ~use_ai => llm = NoClient
        /\ Returned(full_text, with_engine, use_ai, llm)

\* the same document analysed again with the AI switch turned on, after a
\* run with it off
RepeatWithAI ==
    \E llm \in LLMBehaviours :
        /\ call.op = "full"
        /\ ~call.use_ai
        /\ Returned(call.full_text, call.with_engine, TRUE, llm)

\* analyze_clause_compliance(clause, matched_regulations, use_ai) on a clause
\* of a parsed document, with the engine's matches for it or with none
AnalyzeClause ==
    \E full_text \in Documents \ BlankDocuments, retrieved \in BOOLEAN,
       use_ai \in BOOLEAN, llm \in LLMBehaviours :
        /\ call = Idle
        /\ ~use_ai => llm = NoClient
        /\ \E clause \in Range(ClausesOf(full_text)) :
           \E matched \in { IF retrieved THEN ClauseMatchesTable[<<rag, clause>>]
                            ELSE <<>> } :
           \E out \in { analyze_clause_compliance(clause, matched, use_ai, llm) } :
               /\ call' = [ op |-> "clause", clause |-> clause, matched |-> matched,
                            use_ai |-> use_ai, llm |-> llm ]
               /\ result' = out.result
               /\ trace' = [ path |-> out.path, raised |-> FALSE,
                             retriever_calls |-> 0, llm_calls |-> out.llm_calls ]
               /\ sections' = <<>>
               /\ UNCHANGED <<rag, indexings, scoreVars, appVars>>

Next == IndexRegulations \/ AnalyzeFullDocument \/ RepeatWithAI \/ AnalyzeClause

Spec == Init /\ [][Next]_vars

\* C1: for every combination of sub-scores in [0,1], industry, bonus flags and
\* missing-element count with missing <= total, calculate_compliance_score
\* returns an integer between 0 and 100.
ScoreBounded == sscore \in 0..100

\* C1 witness: a call whose unclamped value is negative (no base score, no
\* bonus, every checked element missing) and that returned 0.
ScoreBoundedWitness ==
    /\ sarg.regulatory = 0 /\ ~sarg.citations /\ ~sarg.enforceable
    /\ sarg.total > 0 /\ sarg.missing = sarg.total
    /\ sscore = 0

\* C2: raising regulatory alignment, language strength or completeness with
\* everything else fixed never lowers the score; raising risk_penalty never
\* raises it.
ScoreMonotone ==
    /\ slast.factor \in {"regulatory", "language", "completeness"} => sscore >= slast.before
    /\ slast.factor = "risk" => sscore <= slast.before

\* C2 witness: a raise of language strength that raised the score, reached
\* after the score had been computed with the lower value.
ScoreMonotoneWitness ==
    /\ slast.factor = "language" /\ sscore > slast.before /\ sarg.risk > 0

\* ------------------------------------------------------------------------
\* Properties of the analysis session
\* ------------------------------------------------------------------------

\* the latest call returned a report of the rule-based full-document path
RuleBasedFull ==
    call.op = "full" /\ trace.path \in {"rule_based", "fallback", "invalid_json"}

\* the latest call returned a result of the rule-based clause path
RuleBasedClause ==
    call.op = "clause" /\ trace.path \in {"rule_based", "fallback", "invalid_json"}

\* the number of outdated keywords a text holds
OutdatedHits(text) == Hits(outdated_indicators, Lower(text))

\* the threshold table of the specification
StatusOfScore(score) ==
    IF score >= 75 THEN "compliant"
    ELSE IF score >= 50 THEN "partially_compliant" ELSE "non_compliant"

RiskOfScore(score) ==
    IF score >= 75 THEN "Low" ELSE IF score >= 50 THEN "Medium" ELSE "High"

\* C3: in every rule-based result (each per-section finding of the
\* full-document analysis, and each clause result that is not on the
\* outdated override path) the status is the one the score's band gives:
\* >= 75 compliant, 50..74 partially_compliant, < 50 non_compliant.
StatusByScore ==
    /\ RuleBasedFull =>
          \A k \in 1..Len(sections) :
              result.findings[k].status = StatusOfScore(sections[k].score)
    /\ (RuleBasedClause /\ OutdatedHits(call.clause.text) < 2) =>
          result.compliance_status = StatusOfScore(result.compliance_score)

\* C3 witness: a rule-based report over two sections, one scored 75 or more
\* and one scored in 50..74, and so with two different statuses.
StatusByScoreWitness ==
    /\ RuleBasedFull /\ Len(sections) = 2
    /\ sections[1].score >= 75 /\ sections[2].score \in 50..74
    /\ result.findings[1].status # result.findings[2].status

\* C4: in every rule-based result the risk level is the one the score's band
\* gives (>= 75 Low, 50..74 Medium, < 50 High), in clause results and in
\* per-section findings, with and without regulation matches.
RiskByScore ==
    /\ RuleBasedFull =>
          \A k \in 1..Len(sections) :
              result.findings[k].risk_level = RiskOfScore(sections[k].score)
    /\ RuleBasedClause =>
          result.risk_level = RiskOfScore(result.compliance_score)

\* C5: in every rule-based path a section whose text holds at least two
\* outdated keywords gets status outdated, whatever its score.
OutdatedOverride ==
    /\ RuleBasedFull =>
          \A k \in 1..Len(sections) :
              OutdatedHits(sections[k].text) >= 2 =>
                  result.findings[k].status = "outdated"
    /\ (RuleBasedClause /\ OutdatedHits(call.clause.text) >= 2) =>
          result.compliance_status = "outdated"

\* the titles of a list of matches
Titles(matches) == { matches[k].regulation.title : k \in 1..Len(matches) }

\* what the retriever handed to the call returns for the k-th section's own
\* query (nothing when no retriever was handed in)
OwnMatches(k) ==
    IF call.with_engine
    THEN SectionsOf(call.full_text, DocumentMatchesOf(call.full_text, rag), rag)[k].matches
    ELSE <<>>

\* C6: in every rule-based report every title in a finding's
\* applicable_regulations is the title of a regulation retrieved for that
\* same section with the section's own query; in a clause result every such
\* title is the title of one of the matches handed in.
ApplicableWereRetrieved ==
    /\ RuleBasedFull =>
          \A k \in 1..Len(result.findings) :
              Range(result.findings[k].applicable_regulations) \subseteq Titles(OwnMatches(k))
    /\ RuleBasedClause =>
          Range(result.applicable_regulations) \subseteq Titles(call.matched)

\* the reply text does not parse as JSON, as it stands or cut from the first
\* { to the last }
Unparseable(content) ==
    LET text == ReplyText(content)
        start == Find(text, "{") - 1
        end == RFind(text, "}")
    IN /\ ~json_loads(text).ok
       /\ ~(start >= 0 /\ end > start /\ json_loads(Slice(text, start, end)).ok)

\* the language model was configured and failed: the call raised, or the
\* reply does not parse
LLMFailed(c) ==
    /\ c.use_ai
    /\ \/ c.llm.kind = "raises"
       \/ c.llm.kind = "replies" /\ Unparseable(c.llm.text)

\* the reason of the failure: the exception text, "Invalid JSON" for a reply
\* without an object, the decoder's message for a reply with a broken one;
\* cut to 80 characters
FailureReason(llm) ==
    IF llm.kind = "raises" THEN Prefix(llm.text, 80)
    ELSE LET text == ReplyText(llm.text)
             start == Find(text, "{") - 1
             end == RFind(text, "}")
         IN IF start >= 0 /\ end > start
            THEN Prefix(json_loads(Slice(text, start, end)).error, 80)
            ELSE "Invalid JSON"

SameContent(a, b) ==
    /\ a.overall_score = b.overall_score
    /\ a.overall_risk_level = b.overall_risk_level
    /\ a.findings = b.findings
    /\ a.missing_elements = b.missing_elements
    /\ a.citations = b.citations

\* C8: for the same document, corpus and retriever, the report returned
\* after a failure of the language model has the same overall_score,
\* overall_risk_level, findings, missing_elements and citations as the report
\* returned with use_ai = False.
FallbackTransparent ==
    [][ ( /\ call.op = "full" /\ ~call.use_ai
          /\ call'.op = "full" /\ LLMFailed(call')
          /\ call'.full_text = call.full_text
          /\ call'.with_engine = call.with_engine
          /\ rag' = rag )
        => SameContent(result, result') ]_vars

\* C9: for an empty or whitespace-only document the call returns, without
\* raising, a report with overall_score 0, risk level High and no findings,
\* and calls neither the retriever nor the language model.
BlankDocumentReport ==
    (call.op = "full" /\ Strip(call.full_text) = "") =>
        /\ ~trace.raised
        /\ result.overall_score = 0
        /\ result.overall_risk_level = "High"
        /\ result.findings = <<>>
        /\ trace.retriever_calls = 0
        /\ trace.llm_calls = 0

\* C9 witness: a whitespace-only document analysed with an indexed retriever
\* handed in, use_ai on and a language model that would have replied.
BlankDocumentReportWitness ==
    /\ call.op = "full" /\ call.full_text # "" /\ Strip(call.full_text) = ""
    /\ call.with_engine /\ rag.regulation_data # <<>>
    /\ call.use_ai /\ call.llm.kind = "replies"
    /\ result.overall_score = 0 /\ trace.path = "empty"

\* the words of an issue text
IssueWords(issue) == Range(Split(Lower(issue), " ")) \ {""}

\* two issue texts share at least 60% of their words (Jaccard overlap)
SimilarIssues(a, b) ==
    LET wa == IssueWords(a)
        wb == IssueWords(b)
    IN 10 * Cardinality(wa \cap wb) >= 6 * Cardinality(wa \cup wb)

\* C10: in a rule-based report no two findings have issue texts that share
\* 60% or more of their words: such sections are merged into one finding.
NoSimilarIssues ==
    RuleBasedFull =>
        \A i, j \in 1..Len(result.findings) :
            i < j => ~SimilarIssues(result.findings[i].issue, result.findings[j].issue)

\* ------------------------------------------------------------------------
\* Properties of the document-level figures
\* ------------------------------------------------------------------------

\* the scores of the section loop of the latest call, in order
LoopScores == [ k \in 1..Len(sections) |-> sections[k].score ]

RECURSIVE ProductOf(_)
ProductOf(s) == IF s = <<>> THEN 1 ELSE Head(s) * ProductOf(Tail(s))

RECURSIVE IntPow(_, _)
IntPow(b, n) == IF n = 0 THEN 1 ELSE b * IntPow(b, n - 1)

\* g is the n-th root of the product of the scores, rounded to the nearest
\* integer: (g - 1/2)^n < product < (g + 1/2)^n, stated over the integers
\* (the root of an integer is never a half)
IsRoundedGeometricMean(scores, g) ==
    LET n == Len(scores)
        p == IntPow(2, n) * ProductOf(scores)
    IN IntPow(2 * g - 1, n) < p /\ p < IntPow(2 * g + 1, n)

\* r is sum / n rounded to the nearest integer, a half going to the even one
IsRoundedArithmeticMean(scores, r) ==
    LET n == Len(scores)
        d == 2 * (n * r - SumSeq(scores))
    IN \/ -n < d /\ d < n
       \/ d \in {n, -n} /\ r % 2 = 0

ZeroSectionAveraged ==
    /\ RuleBasedFull /\ Len(sections) = 2
    /\ LoopScores[1] > 0 /\ LoopScores[2] = 0
    /\ IsRoundedArithmeticMean(LoopScores, result.overall_score)

\* the latest call was a full-document analysis made without a language
\* model: the AI switch off, or no client configured
WithoutLLM ==
    call.op = "full" /\ (~call.use_ai \/ call.llm = NoClient)

\* C12: every report analyze_full_document_compliance returns with the
\* language model unavailable, for any document text (empty text included),
\* has compliance_debt_estimate = (100 - overall_score) * 120.
DebtFromScore ==
    WithoutLLM => result.compliance_debt_estimate = (100 - result.overall_score) * 120

\* C13: the overall_risk_level of a rule-based report follows from its
\* overall_score by the threshold table of the sections (>= 75 Low, 50..74
\* Medium, < 50 High), so a section and a document with the same score have
\* the same risk level.
OverallRiskByScore ==
    RuleBasedFull =>
        /\ result.overall_risk_level = RiskOfScore(result.overall_score)
        /\ \A k \in 1..Len(sections) :
              sections[k].score = result.overall_score =>
                  result.findings[k].risk_level = result.overall_risk_level

\* ------------------------------------------------------------------------
\* The retriever on its own: one RAGEngine is indexed, possibly several
\* times, and queried with different clause texts, category hints and top_k
\* ------------------------------------------------------------------------

RetentionRule ==
    [ source_name |-> "FTC", source_url |-> "https://ftc.gov",
      category |-> "Legal", title |-> "Retention Schedule",
      text |-> "Contracts are archived for ten years.",
      status |-> "active" ]

RetrievalCorpora ==
    { <<>>, <<AccessRule, PrivacyRule>>, <<RecordsRule, AccessRule, RetentionRule>> }

\* clause texts: one close to the access rule, one that shares no term with
\* any regulation, one that shares terms with several
RetrievalQueries ==
    { "Employees must review access rights and the owner shall record approval.",
      "Visitors sign the book at the front desk on arrival.",
      "Entities retain records of approval; contracts are archived and access is recorded." }

CategoryHints == { None, "Legal", "IT Security" }

\* most index_regulations calls on the engine
MaxReindexings == 2

\* largest top_k asked for
MaxTopK == 2

\* np.argsort(similarities)[::-1]: numpy's default sort is not stable, so
\* the order among equal similarities is whatever the build produces; every
\* permutation of the indices in non-increasing similarity is an outcome
DescendingOrders(similarities) ==
    { order \in [ DOMAIN similarities -> DOMAIN similarities ] :
        /\ \A i, j \in DOMAIN similarities : i # j => order[i] # order[j]
        /\ \A i, j \in DOMAIN similarities :
              i < j => similarities[order[i]] >= similarities[order[j]] }

\* the results loop reads regulation_data at an index of the matrix: an
\* IndexError when the matrix has more rows than there are records
RaisesIndexError(engine, similarities, top_indices, top_k) ==
    \E k \in 1..Min(top_k, Len(top_indices)) :
        /\ similarities[top_indices[k]] > SimilarityFloor
        /\ top_indices[k] > Len(engine.regulation_data)

\* retrieve_relevant_regulations from the sort on, for one outcome of the sort
RetrievedIn(engine, similarities, order, top_k) ==
    IF RaisesIndexError(engine, similarities, Take(order, top_k * 2), top_k)
    THEN [ raised |-> TRUE, results |-> <<>>, order |-> order ]
    ELSE [ raised |-> FALSE, order |-> order,
           results |-> Results(engine, similarities, Take(order, top_k * 2), top_k) ]

\* the outcomes of retrieve_relevant_regulations on an engine; a repeated
\* query sorts the same array and so gets the same order again
Retrievals(engine, clause_text, clause_category, top_k, orders) ==
    IF engine.regulation_texts = <<>> \/ engine.fitted = NoMatrix
    THEN { [ raised |-> FALSE, results |-> <<>>, order |-> <<>> ] }
    ELSE { RetrievedIn(engine, similarities, order, top_k) :
             similarities \in { Similarities(engine, clause_text, clause_category) },
             order \in orders }

RetrievalInit ==
    /\ rag = NewEngine
    /\ indexings = 0
    /\ call = Idle
    /\ result = <<>>
    /\ trace = [ raised |-> FALSE, indexed |-> <<>>, order |-> <<>>, before |-> Idle ]
    /\ sections = <<>>
    /\ AppUnused
    /\ sarg = Idle
    /\ sscore = 0
    /\ slast = Idle

\* rag.index_regulations(regulations), on a new or an already indexed engine
Reindex ==
    \E regulations \in RetrievalCorpora :
        /\ indexings < MaxReindexings
        /\ rag' = index_regulations(rag, regulations)
        /\ indexings' = indexings + 1
        /\ call' = [ op |-> "index", regulations |-> regulations ]
        /\ result' = <<>>
        /\ trace' = [ raised |-> FALSE, indexed |-> Append(trace.indexed, regulations),
                      order |-> <<>>, before |-> Idle ]
        /\ UNCHANGED <<sections, scoreVars, appVars>>

\* the state after retrieve_relevant_regulations returned or raised
Retrieved(clause_text, clause_category, top_k, out, before) ==
    /\ call' = [ op |-> "retrieve", clause_text |-> clause_text,
                 clause_category |-> clause_category, top_k |-> top_k ]
    /\ result' = out.results
    /\ trace' = [ raised |-> out.raised, indexed |-> trace.indexed,
                  order |-> out.order, before |-> before ]
    /\ UNCHANGED <<rag, indexings, sections, scoreVars, appVars>>

\* rag.retrieve_relevant_regulations(clause_text, clause_category, top_k)
Retrieve ==
    \E clause_text \in RetrievalQueries, clause_category \in CategoryHints,
       top_k \in 0..MaxTopK :
        /\ call.op # "retrieve"
        /\ \E out \in Retrievals(rag, clause_text, clause_category, top_k,
                                 DescendingOrders(Similarities(rag, clause_text, clause_category))) :
              Retrieved(clause_text, clause_category, top_k, out, Idle)

\* the same query asked again with another top_k
RetrieveAgain ==
    \E top_k \in 0..MaxTopK :
        /\ call.op = "retrieve"
        /\ top_k # call.top_k
        /\ trace.before = Idle
        /\ \E out \in Retrievals(rag, call.clause_text, call.clause_category, top_k, {trace.order}) :
              Retrieved(call.clause_text, call.clause_category, top_k, out,
                        [ top_k |-> call.top_k, results |-> result ])

RetrievalNext == Reindex \/ Retrieve \/ RetrieveAgain

RetrievalSpec == RetrievalInit /\ [][RetrievalNext]_vars

\* ------------------------------------------------------------------------
\* Properties of the retriever
\* ------------------------------------------------------------------------

\* a is b cut to its first Len(a) entries
IsPrefix(a, b) == Len(a) <= Len(b) /\ a = SubSeq(b, 1, Len(a))

\* C14: for an indexed corpus, a query and a category hint, the result for
\* a smaller top_k is a prefix of the result for a larger one, a result has
\* at most top_k entries, and its similarity scores do not increase with
\* the rank.
TopKPrefix ==
    call.op = "retrieve" =>
        /\ Len(result) <= call.top_k
        /\ \A i \in 1..Len(result) - 1 :
              result[i].similarity_score >= result[i + 1].similarity_score
        /\ (trace.before # Idle /\ trace.before.top_k < call.top_k) =>
              IsPrefix(trace.before.results, result)
        /\ (trace.before # Idle /\ call.top_k < trace.before.top_k) =>
              IsPrefix(result, trace.before.results)

\* C14 witness: the query asked with top_k = 1 and then with top_k = 2 on a
\* corpus of three records; the second result has one entry more, with a
\* lower similarity, after the entry of the first result.
TopKPrefixWitness ==
    /\ call.op = "retrieve" /\ call.top_k = 2 /\ Len(rag.regulation_data) = 3
    /\ trace.before # Idle /\ trace.before.top_k = 1
    /\ Len(trace.before.results) = 1 /\ Len(result) = 2
    /\ result[1] = trace.before.results[1]
    /\ result[2].similarity_score < result[1].similarity_score

\* the place of a record in the indexed corpus (the records of a corpus of
\* the model are all different)
PositionOf(regulation) ==
    CHOOSE idx \in 1..Len(rag.regulation_data) : rag.regulation_data[idx] = regulation

\* C15: ties are broken by corpus order: of two returned records with the
\* same (boosted) similarity, the one that comes first in the indexed corpus
\* comes first in the result.
TiesInCorpusOrder ==
    (call.op = "retrieve" /\ ~trace.raised) =>
        \A i, j \in 1..Len(result) :
            (i < j /\ result[i].similarity_score = result[j].similarity_score) =>
                PositionOf(result[i].regulation) < PositionOf(result[j].regulation)

\* the result the stable sort numpy applies to short arrays gives: equal
\* similarities in decreasing index
StableSortOutcome ==
    trace.order = ArgsortReversed(Similarities(rag, call.clause_text, call.clause_category),
                                  1..Len(rag.regulation_data))

\* ties are broken by corpus order at least when the sort is the stable one
TiesInCorpusOrderWhenStable ==
    (call.op = "retrieve" /\ rag.regulation_texts # <<>> /\ StableSortOutcome) =>
        TiesInCorpusOrder

\* the cosine similarity of the query of the latest call to every indexed
\* record, without the category boost
CosineToQuery == Similarities(rag, call.clause_text, None)

\* C16: only records whose cosine similarity with the query is strictly
\* above the noise floor (0.03) are returned, for every query, category hint
\* and top_k; with fewer than top_k such records the result is shorter and
\* is never padded with records below the floor.
AboveNoiseFloor ==
    (call.op = "retrieve" /\ ~trace.raised) =>
        /\ \A i \in 1..Len(result) :
              CosineToQuery[PositionOf(result[i].regulation)] > SimilarityFloor
        /\ Len(result) <=
              Cardinality({ idx \in 1..Len(rag.regulation_data) :
                              CosineToQuery[idx] > SimilarityFloor })

\* the corpus of the latest index_regulations call; none before the first
LatestCorpus ==
    IF trace.indexed = <<>> THEN <<>> ELSE trace.indexed[Len(trace.indexed)]

EmptiedEngineQueried ==
    /\ call.op = "retrieve" /\ Len(trace.indexed) = 2
    /\ trace.indexed[1] # <<>> /\ trace.indexed[2] = <<>>
    /\ rag.fitted # NoMatrix /\ result = <<>>

\* ------------------------------------------------------------------------
\* The segmenter on its own: a document is put together from parts, parsed,
\* and the text fields of the sections are joined and parsed again
\* ------------------------------------------------------------------------

\* parts of a document: a section under a heading, a numbered paragraph, a
\* capitals heading with its body, a paragraph without heading, and a span
\* too short to be kept
DocumentParts ==
    { "Section 1: Access Control\nThe owner must review access rights.",
      "2.1 Passwords are rotated every quarter by the administrator.",
      "PURPOSE AND SCOPE\nThis policy covers all employees.",
      "Visitors sign the book at the front desk on arrival.",
      "Short note." }

\* what stands between two parts: a line break or a blank line
PartSeparators == { "\n", "\n\n" }

\* most parts of a document
MaxParts == 2

\* the text fields of the sections, joined in order
RECURSIVE JoinedTexts(_)
JoinedTexts(clauses) ==
    IF clauses = <<>> THEN "" ELSE Head(clauses).text \o JoinedTexts(Tail(clauses))

ParseInit ==
    /\ call = [ op |-> "write", raw_text |-> "", parts |-> 0 ]
    /\ result = <<>>
    /\ trace = Idle
    /\ rag = NewEngine
    /\ indexings = 0
    /\ sections = <<>>
    /\ AppUnused
    /\ sarg = Idle
    /\ sscore = 0
    /\ slast = Idle

\* one more part of the document text
WritePart ==
    \E part \in DocumentParts, separator \in PartSeparators :
        /\ call.op = "write"
        /\ call.parts < MaxParts
        /\ call.parts = 0 => separator = "\n"
        /\ call' = [ op |-> "write", parts |-> call.parts + 1,
                     raw_text |-> IF call.parts = 0 THEN part
                                  ELSE call.raw_text \o separator \o part ]
        /\ UNCHANGED <<result, trace, rag, indexings, sections, scoreVars, appVars>>

\* clauses = parse_sop_into_clauses(raw_text)
ParseDocument ==
    /\ call.op = "write"
    /\ call' = [ op |-> "parse", raw_text |-> call.raw_text, parts |-> call.parts ]
    /\ result' = parse_sop_into_clauses(call.raw_text)
    /\ UNCHANGED <<trace, rag, indexings, sections, scoreVars, appVars>>

\* parse_sop_into_clauses applied to the joined text fields of its own result
ParseAgain ==
    /\ call.op = "parse"
    /\ \E joined \in { JoinedTexts(result) } :
          /\ call' = [ op |-> "reparse", raw_text |-> joined, parts |-> call.parts ]
          /\ result' = parse_sop_into_clauses(joined)
    /\ trace' = [ first |-> result ]
    /\ UNCHANGED <<rag, indexings, sections, scoreVars, appVars>>

ParseNext == WritePart \/ ParseDocument \/ ParseAgain

ParseSpec == ParseInit /\ [][ParseNext]_vars

\* ------------------------------------------------------------------------
\* Properties of the segmenter
\* ------------------------------------------------------------------------

\* the text fields of a list of sections
TextsOf(clauses) == [ k \in 1..Len(clauses) |-> clauses[k].text ]

\* C18: segmentation is idempotent: parsing the in-order concatenation of
\* the text fields of the sections returned for a document gives the same
\* number of sections with the same text fields.
SegmentationIdempotent ==
    call.op = "reparse" => TextsOf(result) = TextsOf(trace.first)

\* C19: the ids of the returned sections are sequential in list order
\* without gaps: the n-th section has id CLAUSE-00n, with heading patterns
\* and with the blank-line paragraph fallback, also when spans were
\* discarded as too short.
SequentialIds ==
    call.op \in {"parse", "reparse"} =>
        \A n \in 1..Len(result) : result[n].id = ClauseId(n)

\* ------------------------------------------------------------------------
\* Sections without regulation matches
\* ------------------------------------------------------------------------

\* the regulatory alignment sub-score of a list of matches
AlignmentOf(matches) ==
    calculate_regulatory_alignment_score(matches, AvgSimilarity(matches), TopSimilarity(matches))

\* C20: a section with no regulation match that is not on the outdated
\* override path has regulatory alignment 0, a score of at most 35, status
\* non_compliant and risk level High, whatever its text, category and
\* industry.
UnmatchedSection ==
    /\ RuleBasedFull =>
          \A k \in 1..Len(sections) :
              sections[k].matches = <<>> =>
                  /\ AlignmentOf(sections[k].matches) = 0
                  /\ sections[k].score <= 35
                  /\ result.findings[k].status = "non_compliant"
                  /\ result.findings[k].risk_level = "High"
    /\ (RuleBasedClause /\ call.matched = <<>> /\ OutdatedHits(call.clause.text) < 2) =>
          /\ AlignmentOf(call.matched) = 0
          /\ result.compliance_score <= 35
          /\ result.compliance_status = "non_compliant"
          /\ result.risk_level = "High"

\* C20 witness: the retriever, indexed with a corpus, was handed in and
\* returned nothing for either of two sections; both are rated non_compliant
\* with risk High and a score of at most 35.
UnmatchedSectionWitness ==
    /\ RuleBasedFull /\ call.with_engine /\ rag.regulation_texts # <<>>
    /\ Len(sections) = 2
    /\ \A k \in 1..2 :
          /\ sections[k].matches = <<>> /\ sections[k].score <= 35
          /\ result.findings[k].status = "non_compliant"
          /\ result.findings[k].risk_level = "High"

\* a section with enforceable wording and no match: the bonus for
\* enforceable language is all its score is made of
UnmatchedEnforceable ==
    /\ RuleBasedFull
    /\ \E k \in 1..Len(sections) :
          /\ sections[k].matches = <<>>
          /\ has_enforceable_language(sections[k].text)
          /\ sections[k].score > 0

\* ------------------------------------------------------------------------
\* The document-level score on its own: a list of section scores is
\* aggregated, one of the scores is raised, and the list is aggregated again
\* ------------------------------------------------------------------------

\* section scores as line 851 appends them: integers in 0..100
SectionScoreInputs == { 0, 1, 10, 50, 90, 100 }

\* most sections of a report
MaxSections == 2

SectionScoreLists ==
    UNION { [ 1..n -> SectionScoreInputs ] : n \in 1..MaxSections }

MeanInit ==
    /\ sarg \in { [ section_scores |-> l ] : l \in SectionScoreLists }
    /\ sscore = SectionsScore(sarg.section_scores)
    /\ slast = [ factor |-> "none", before |-> sscore ]
    /\ rag = NewEngine
    /\ indexings = 0
    /\ call = Idle
    /\ result = Idle
    /\ trace = Idle
    /\ sections = <<>>
    /\ AppUnused

\* the same sections with the score of one of them raised
RaiseSection ==
    \E k \in 1..Len(sarg.section_scores), higher \in SectionScoreInputs :
        /\ slast.factor = "none"
        /\ higher > sarg.section_scores[k]
        /\ sarg' = [ section_scores |-> [ sarg.section_scores EXCEPT ![k] = higher ] ]
        /\ sscore' = SectionsScore(sarg'.section_scores)
        /\ slast' = [ factor |-> "section", before |-> sscore,
                      raised_from |-> sarg.section_scores[k] ]
        /\ UNCHANGED <<analysisVars, appVars>>

MeanNext == RaiseSection

MeanSpec == MeanInit /\ [][MeanNext]_vars

\* C28: the document-level score is monotone in the section scores: raising
\* one section's score with the others fixed never lowers overall_score,
\* and overall_score lies between the lowest and the highest section score.
MeanMonotone ==
    /\ slast.factor = "section" => sscore >= slast.before
    /\ \E k \in 1..Len(sarg.section_scores) : sarg.section_scores[k] <= sscore
    /\ \E k \in 1..Len(sarg.section_scores) : sarg.section_scores[k] >= sscore

\* overall_score lies between the lowest and the highest section score
MeanWithinRange ==
    /\ \E k \in 1..Len(sarg.section_scores) : sarg.section_scores[k] <= sscore
    /\ \E k \in 1..Len(sarg.section_scores) : sarg.section_scores[k] >= sscore

\* raising a score that was above 0 never lowers overall_score
MeanMonotoneAbovePositive ==
    (slast.factor = "section" /\ slast.raised_from > 0) => sscore >= slast.before

\* ------------------------------------------------------------------------
\* Long documents: a document is written section by section, access
\* sections first and then visitor sections, and analysed without the
\* language model, with an indexed retriever or with none
\* ------------------------------------------------------------------------

\* most access sections of a document
MaxSectionCount == 13

\* most visitor sections after them
MaxTrailing == 2

\* the n-th section of the document, of one of the two kinds
NumberedSection(n, kind) ==
    "Section " \o ToString(n)
    \o (IF kind = "access"
        THEN ": Access\nThe owner must review access.\n"
        ELSE ": Visitors\nVisitors sign the book.\n")

\* the retriever handed to the analysis of a long document
IndexedEngine == index_regulations(NewEngine, <<AccessRule, PrivacyRule>>)

\* analyze_full_document_compliance(full_text, regulations, rag_engine,
\* use_ai=False) for a non-blank text, once the document-level matches are known
AnalyzedWithoutAI(full_text, matched_regs, rag_engine) ==
    RunOf(Sections(full_text, matched_regs, rag_engine), full_text, matched_regs, None)

LongInit ==
    /\ call = [ op |-> "write", full_text |-> "", leading |-> 0, trailing |-> 0 ]
    /\ result = Idle
    /\ trace = Idle
    /\ sections = <<>>
    /\ AppUnused
    /\ rag = IndexedEngine
    /\ indexings = 1
    /\ sarg = Idle
    /\ sscore = 0
    /\ slast = Idle

\* one more section at the end of the document
WriteSection ==
    \E kind \in {"access", "visitors"} :
        /\ call.op = "write"
        /\ kind = "access" => call.trailing = 0 /\ call.leading < MaxSectionCount
        /\ kind = "visitors" => call.trailing < MaxTrailing
        /\ call.leading + call.trailing < MaxSectionCount
        /\ call' = [ op |-> "write",
                     full_text |-> call.full_text
                                   \o NumberedSection(call.leading + call.trailing + 1, kind),
                     leading |-> call.leading + (IF kind = "access" THEN 1 ELSE 0),
                     trailing |-> call.trailing + (IF kind = "visitors" THEN 1 ELSE 0) ]
        /\ UNCHANGED <<result, trace, sections, rag, indexings, scoreVars, appVars>>

\* analyze_full_document_compliance(full_text, regulations, rag_engine, use_ai=False)
AnalyzeLongDocument ==
    \E with_engine \in BOOLEAN :
        /\ call.op = "write"
        /\ call.leading + call.trailing >= 1
        /\ \E rag_engine \in { IF with_engine THEN rag ELSE NoEngine } :
           \E out \in { AnalyzedWithoutAI(call.full_text,
                                          DocumentMatches(call.full_text, rag_engine),
                                          rag_engine) } :
               /\ result' = out.report
               /\ sections' = out.sections
        /\ call' = [ op |-> "full", full_text |-> call.full_text, with_engine |-> with_engine,
                     use_ai |-> FALSE, llm |-> NoClient,
                     written |-> call.leading + call.trailing ]
        /\ trace' = [ path |-> "rule_based", raised |-> FALSE,
                      retriever_calls |-> IF with_engine THEN 1 + Len(sections') ELSE 0,
                      llm_calls |-> 0 ]
        /\ UNCHANGED <<rag, indexings, scoreVars, appVars>>

LongNext == WriteSection \/ AnalyzeLongDocument

LongSpec == LongInit /\ [][LongNext]_vars

\* the areas of the findings the segmenter's sections call for, in order
AreasOf(clauses) == [ k \in 1..Len(clauses) |-> Prefix(clauses[k].title, 80) ]

\* C29: a rule-based report has exactly one finding for every section the
\* segmenter returns for the document, in document order, and overall_score
\* aggregates the scores of all those sections, whatever their number.
FindingPerSection ==
    RuleBasedFull =>
        /\ [ k \in 1..Len(result.findings) |-> result.findings[k].area ]
              = AreasOf(parse_sop_into_clauses(call.full_text))
        /\ Len(sections) = Len(result.findings)
        /\ result.overall_score = SectionsScore(LoopScores)

\* the same for documents of at most twelve sections
FindingPerSectionUpToTwelve ==
    (RuleBasedFull /\ call.written <= 12) => FindingPerSection

\* the keys every report has to carry
ReportKeys ==
    { "overall_score", "overall_risk_level", "findings", "missing_elements",
      "citations", "compliance_debt_estimate", "analysis_method" }

\* C30: every report analyze_full_document_compliance returns, on every
\* path (empty text, rule-based, a reply of the language model holding any
\* JSON object, a failure of the language model), is well-formed: it has
\* overall_score, an integer in 0..100, overall_risk_level in {Low, Medium,
\* High}, a findings list, missing_elements, citations,
\* compliance_debt_estimate and a non-empty analysis_method.
WellFormedReport ==
    (call.op = "full" /\ ~trace.raised) =>
        /\ ReportKeys \subseteq DOMAIN result
        /\ result.overall_score \in 0..100
        /\ result.overall_risk_level \in {"Low", "Medium", "High"}
        /\ DOMAIN result.findings = 1..Len(result.findings)
        /\ result.analysis_method # ""

\* the reports that do not come from a reply of the language model are
\* well-formed
WellFormedWithoutReply ==
    (call.op = "full" /\ trace.path # "ai") => WellFormedReport

\* ------------------------------------------------------------------------
\* The history of analyses (modules/history_manager.py).  The history file
\* is held as its lines, each the JSON text of a record or a text that is
\* not JSON, with a flag for a last line that lacks its line break;
\* timestamps are ticks of the clock, which sort as their isoformat texts do
\* ------------------------------------------------------------------------

\* a None where a dict or a record is expected
Nothing == [absent |-> TRUE]

\* json.dumps(record) and a text json.loads raises on
JsonLine(record) == [ kind |-> "json", value |-> record ]

BrokenLine == [ kind |-> "broken" ]

\* ticks of the clock in a second
TicksPerSecond == 2

\* datetime.now().strftime('%Y%m%d_%H%M%S'): the second a tick lies in
SecondOf(tick) == tick \div TicksPerSecond

\* f"analysis_{second}_{hash(document_name) % 10000}"
AnalysisId(tick, str_hash) ==
    "analysis_" \o ToString(SecondOf(tick)) \o "_" \o ToString(str_hash % 10000)

\* the record save_analysis_history builds from its arguments
HistoryRecord(a, analysis_id, timestamp) ==
    [ analysis_id |-> analysis_id,
      timestamp |-> timestamp,
      document_name |-> a.document_name,
      domain |-> IF a.domain \in {None, ""} THEN "General" ELSE a.domain,
      compliance_score |-> a.compliance_score,
      risk_level |-> a.risk_level,
      analysis_method |-> a.analysis_method,
      num_findings |-> a.num_findings,
      sop_text_preview |-> Prefix(a.sop_text_preview, 200),
      full_analysis |-> a.full_analysis,
      sop_text |-> IF a.sop_text \in {None, ""} THEN None ELSE Prefix(a.sop_text, 5000),
      regulations_count |-> Len(a.regulations) ]

\* f.write(line + "\n") on the file opened with "a": a new line, or the
\* rest of a last line that was left without its line break
AppendLine(file, line) ==
    IF file = NoFile THEN [ lines |-> <<line>>, open |-> FALSE ]
    ELSE IF file.open THEN [ lines |-> file.lines, open |-> FALSE ]
    ELSE [ lines |-> Append(file.lines, line), open |-> FALSE ]

\* a write that stopped part-way: the start of a line, without line break
AppendPart(file) ==
    IF file = NoFile THEN [ lines |-> <<BrokenLine>>, open |-> TRUE ]
    ELSE IF file.open THEN file
    ELSE [ lines |-> Append(file.lines, BrokenLine), open |-> TRUE ]

\* the try block of save_analysis_history: the record is appended, or the
\* write raises before or after part of the line got out, which is caught
WrittenTo(file, record, outcome) ==
    IF outcome = "written" THEN AppendLine(file, JsonLine(record))
    ELSE IF outcome = "partial" THEN AppendPart(file)
    ELSE file

\* save_analysis_history: the id returned and the file afterwards; the clock
\* is read once for the id and once more for the timestamp
save_analysis_history(file, a, str_hash, id_tick, timestamp, outcome) ==
    [ analysis_id |-> AnalysisId(id_tick, str_hash),
      file |-> WrittenTo(file, HistoryRecord(a, AnalysisId(id_tick, str_hash), timestamp), outcome) ]

\* records.sort(key=timestamp, reverse=True): stable, equal timestamps keep
\* their order in the file
RECURSIVE SortByTimestamp(_)
SortByTimestamp(records) ==
    IF records = <<>> THEN <<>>
    ELSE LET m == CHOOSE i \in 1..Len(records) :
                    \A j \in 1..Len(records) :
                        \/ records[j].timestamp < records[i].timestamp
                        \/ (records[j].timestamp = records[i].timestamp /\ i <= j)
         IN <<records[m]>>
            \o SortByTimestamp(SubSeq(records, 1, m - 1) \o SubSeq(records, m + 1, Len(records)))

\* load_analysis_history(limit): nothing without a file, nothing when a line
\* does not parse (the exception is caught), else the latest `limit` records
load_analysis_history(file, limit) ==
    IF file = NoFile THEN <<>>
    ELSE IF \E k \in 1..Len(file.lines) : file.lines[k].kind # "json" THEN <<>>
    ELSE Take(SortByTimestamp([ k \in 1..Len(file.lines) |-> file.lines[k].value ]), limit)

\* the first record with the id among the given ones, or None
FirstWithId(records, analysis_id) ==
    IF \E k \in 1..Len(records) : records[k].analysis_id = analysis_id
    THEN records[CHOOSE k \in 1..Len(records) :
                    /\ records[k].analysis_id = analysis_id
                    /\ \A j \in 1..k - 1 : records[j].analysis_id # analysis_id]
    ELSE Nothing

\* get_analysis_by_id
get_analysis_by_id(file, analysis_id) ==
    FirstWithId(load_analysis_history(file, 1000), analysis_id)

\* clear_history: the file is removed, unless removing raises
clear_history(file, outcome) == IF outcome = "written" THEN NoFile ELSE file

\* the file rewritten with the given records
Rewritten(records) ==
    [ lines |-> [ k \in 1..Len(records) |-> JsonLine(records[k]) ], open |-> FALSE ]

\* delete_analysis: the records read are written back without those of the
\* id; False when opening the file raises
delete_analysis(file, analysis_id, outcome) ==
    IF outcome # "written" THEN [ returned |-> FALSE, file |-> file ]
    ELSE [ returned |-> TRUE,
           file |-> Rewritten(SelectSeq(load_analysis_history(file, 1000),
                                        LAMBDA r : r.analysis_id # analysis_id)) ]

\* ------------------------------------------------------------------------
\* The history under saves, look-ups, deletions and clearing, as the pages of
\* app.py call them, with a clock that advances between and within calls
\* ------------------------------------------------------------------------

\* names of uploaded documents
DocumentNames == { "policy.pdf", "manual.docx" }

\* what hash() gives the document names in one run of the interpreter: the
\* str hash is salted per run, and two names may agree modulo 10000
StrHashes ==
    { [ n \in DocumentNames |-> IF n = "policy.pdf" THEN 12345 ELSE 40017 ],
      [ n \in DocumentNames |-> IF n = "policy.pdf" THEN 40017 ELSE 50017 ] }

\* the analyses saved: a dict stands for the report of the analysis
SavedAnalyses ==
    { [ document_name |-> "policy.pdf", domain |-> "Healthcare", compliance_score |-> 88,
        risk_level |-> "Low", analysis_method |-> "Rule-based", num_findings |-> 0,
        sop_text_preview |-> "Access policy", sop_text |-> "Access policy",
        full_analysis |-> [ overall_score |-> 88, findings |-> <<>> ],
        regulations |-> <<AccessRule>> ],
      [ document_name |-> "policy.pdf", domain |-> None, compliance_score |-> 41,
        risk_level |-> "High", analysis_method |-> "Rule-based", num_findings |-> 1,
        sop_text_preview |-> "Visitor policy", sop_text |-> "Visitor policy",
        full_analysis |-> [ overall_score |-> 41, findings |-> <<"Visitors">> ],
        regulations |-> <<>> ],
      [ document_name |-> "manual.docx", domain |-> "Finance", compliance_score |-> 64,
        risk_level |-> "Medium", analysis_method |-> "AI (Grok)", num_findings |-> 1,
        sop_text_preview |-> "Manual", sop_text |-> "Manual",
        full_analysis |-> [ overall_score |-> 64, findings |-> <<"Records">> ],
        regulations |-> <<AccessRule>> ] }

\* what a write to the file comes to
WriteOutcomes == { "written", "partial", "failed" }

\* the calls of save_analysis_history and the ticks of the clock in a run
MaxSaves == 2

MaxTicks == 2

\* an id no save returns
UnknownId == "analysis_none"

\* the ids the history page can ask for: those returned so far, and another
KnownIds(saves) == { saves[k].analysis_id : k \in 1..Len(saves) } \cup {UnknownId}

\* the log of a run: every save so far with the id it returned and whether
\* that id has been deleted, or the history cleared, since; and the number of
\* writes that did not go through
NoLog == [ saves |-> <<>>, faults |-> 0 ]

\* the saves of the log, those with the given ids no longer live
Dropping(saves, ids) ==
    [ k \in 1..Len(saves) |->
        IF saves[k].analysis_id \in ids THEN [ saves[k] EXCEPT !.live = FALSE ] ELSE saves[k] ]

HistoryInit ==
    /\ history_file = NoFile
    /\ host \in { [ now |-> 0, str_hash |-> h ] : h \in StrHashes }
    /\ session = Idle
    /\ call = Idle
    /\ result = Idle
    /\ trace = NoLog
    /\ rag = NewEngine
    /\ indexings = 0
    /\ sections = <<>>
    /\ sarg = Idle
    /\ sscore = 0
    /\ slast = Idle

\* time passes
Tick ==
    /\ host.now < MaxTicks
    /\ host' = [ host EXCEPT !.now = @ + 1 ]
    /\ UNCHANGED <<history_file, session, analysisVars, scoreVars>>

\* render_analysis saves the analysis it has just made; the two readings of
\* the clock fall in one tick
SaveAnalysis ==
    \E a \in SavedAnalyses, outcome \in WriteOutcomes :
        /\ Len(trace.saves) < MaxSaves
        /\ \E saved \in { save_analysis_history(history_file, a, host.str_hash[a.document_name],
                                                host.now, host.now, outcome) } :
              /\ history_file' = saved.file
              /\ call' = [ op |-> "save", arguments |-> a, outcome |-> outcome ]
              /\ result' = [ analysis_id |-> saved.analysis_id ]
              /\ trace' = [ saves |-> Append(trace.saves,
                                             [ analysis_id |-> saved.analysis_id, arguments |-> a,
                                               live |-> TRUE ]),
                            faults |-> trace.faults + (IF outcome = "written" THEN 0 ELSE 1) ]
        /\ UNCHANGED <<host, session, rag, indexings, sections, scoreVars>>

\* the history page deletes an analysis
DeleteAnalysis ==
    \E analysis_id \in KnownIds(trace.saves), outcome \in {"written", "failed"} :
        \E deleted \in { delete_analysis(history_file, analysis_id, outcome) } :
            /\ history_file' = deleted.file
            /\ call' = [ op |-> "delete", analysis_id |-> analysis_id,
                         before |-> history_file ]
            /\ result' = [ returned |-> deleted.returned ]
            /\ trace' = IF deleted.returned
                        THEN [ trace EXCEPT !.saves = Dropping(@, {analysis_id}) ]
                        ELSE trace
            /\ UNCHANGED <<host, session, rag, indexings, sections, scoreVars>>

\* the history is cleared
ClearHistory ==
    \E outcome \in {"written", "failed"} :
        /\ history_file' = clear_history(history_file, outcome)
        /\ call' = [ op |-> "clear" ]
        /\ result' = Idle
        /\ trace' = IF outcome = "written"
                    THEN [ trace EXCEPT !.saves = Dropping(@, KnownIds(@)) ]
                    ELSE trace
        /\ UNCHANGED <<host, session, rag, indexings, sections, scoreVars>>

HistoryNext == Tick \/ SaveAnalysis \/ DeleteAnalysis \/ ClearHistory

HistorySpec == HistoryInit /\ [][HistoryNext]_vars

\* the records of the history file: its lines that are JSON, in file order
RecordsIn(file) ==
    IF file = NoFile THEN <<>>
    ELSE LET parsed == SelectSeq(file.lines, LAMBDA l : l.kind = "json")
         IN [ k \in 1..Len(parsed) |-> parsed[k].value ]

\* every line of the file parses
Parsable(file) == file = NoFile \/ \A k \in 1..Len(file.lines) : file.lines[k].kind = "json"

\* C24: whatever the document names and the times of the saves, no two
\* records of the history carry the same analysis_id
UniqueAnalysisIds ==
    \A i, j \in 1..Len(RecordsIn(history_file)) :
        i # j => RecordsIn(history_file)[i].analysis_id # RecordsIn(history_file)[j].analysis_id

\* two records of the history share an analysis_id only when they were saved
\* within one second under names whose hashes agree modulo 10000
SharedIdWithinSecond ==
    \A i, j \in 1..Len(RecordsIn(history_file)) :
        LET ri == RecordsIn(history_file)[i]
            rj == RecordsIn(history_file)[j]
        IN (i # j /\ ri.analysis_id = rj.analysis_id)
              => /\ ri.timestamp - rj.timestamp \in (0 - TicksPerSecond)..TicksPerSecond
                 /\ host.str_hash[ri.document_name] % 10000 = host.str_hash[rj.document_name] % 10000

\* the record is the one a save with these arguments wrote
IsRecordOf(record, a) ==
    /\ record # Nothing
    /\ record.document_name = a.document_name
    /\ record.compliance_score = a.compliance_score
    /\ record.risk_level = a.risk_level
    /\ record.full_analysis = a.full_analysis

\* C23: every save whose id has not been deleted since, in a history not
\* cleared since, is found under its id with the name, score, risk level
\* and full analysis that save was given
SavedStaysRetrievable ==
    \A k \in 1..Len(trace.saves) :
        trace.saves[k].live
            => IsRecordOf(get_analysis_by_id(history_file, trace.saves[k].analysis_id),
                          trace.saves[k].arguments)

\* the same, as long as every write went through and no live save shares
\* its id with another save
SavedStaysRetrievableUnshared ==
    \A k \in 1..Len(trace.saves) :
        ( /\ trace.saves[k].live
          /\ trace.faults = 0
          /\ \A j \in 1..Len(trace.saves) :
                j # k => trace.saves[j].analysis_id # trace.saves[k].analysis_id )
            => IsRecordOf(get_analysis_by_id(history_file, trace.saves[k].analysis_id),
                          trace.saves[k].arguments)

\* the same, as long as every write went through
SavedStaysRetrievableWritten ==
    trace.faults = 0 =>
        \A k \in 1..Len(trace.saves) :
            trace.saves[k].live
                => IsRecordOf(get_analysis_by_id(history_file, trace.saves[k].analysis_id),
                              trace.saves[k].arguments)

\* the records of `before` with another id are all records of `after`
OthersKept(before, after, analysis_id) ==
    \A k \in 1..Len(before) :
        before[k].analysis_id # analysis_id
            => \E j \in 1..Len(after) : after[j] = before[k]

\* C22: after delete_analysis(X) has returned True, X is not found and every
\* record of another id that the file held before the call is still in it,
\* unchanged, whatever the state of the file was
DeleteRemovesOnlyThat ==
    (call.op = "delete" /\ result.returned)
        => /\ get_analysis_by_id(history_file, call.analysis_id) = Nothing
           /\ OthersKept(RecordsIn(call.before), RecordsIn(history_file), call.analysis_id)

\* the same for a file every line of which parsed before the call
DeleteRemovesOnlyThatParsable ==
    (call.op = "delete" /\ result.returned /\ Parsable(call.before))
        => /\ get_analysis_by_id(history_file, call.analysis_id) = Nothing
           /\ OthersKept(RecordsIn(call.before), RecordsIn(history_file), call.analysis_id)

\* a deletion that returned True on a file holding the id and another one
DeletedAmongOthers ==
    /\ call.op = "delete"
    /\ result.returned
    /\ Parsable(call.before)
    /\ \E i, j \in 1..Len(RecordsIn(call.before)) :
          /\ RecordsIn(call.before)[i].analysis_id = call.analysis_id
          /\ RecordsIn(call.before)[j].analysis_id # call.analysis_id

\* ------------------------------------------------------------------------
\* The updated document (modules/document_editor.py): the original sections
\* with the approved suggestions added after the section each relates to
\* ------------------------------------------------------------------------

\* the label of an inserted update, and the rule drawn before it (forty
\* dashes; the dash of the source is written here with the ASCII hyphen)
ADDITION_HEADER == "Regulatory update (included as per compliance review)"

ADDITION_RULE == "----------------------------------------"

ADDITION_SEPARATOR == "\n\n" \o ADDITION_RULE \o "\n\n"

editor_section_words == <<"Section", "SECTION", "Clause", "CLAUSE", "Article", "Policy">>

editor_heading_words ==
    <<"Purpose", "Scope", "Procedure", "Data", "Health", "Employment", "Financial",
      "Environmental", "Quality", "IT Security", "Legal">>

\* \s*(?:Section|...|Policy)\s*[\d.:\s]+[^\n]* matched at offset b: the
\* keyword, at least one character of the class, then the rest of the line
EditorSectionEnd(t, b) ==
    LET kw == AltEnd(t, RunEnd(t, b, "\\s"), editor_section_words, 1)
        run == RunEnd(t, kw, "[\\d.:\\s]")
    IN IF kw >= 0 /\ run > kw THEN RunEnd(t, run, "[^\\n]") ELSE -1

\* \s*\d+\.\d+[\s.]*[^\n]* matched at offset b
EditorDecimalEnd(t, b) ==
    LET d1 == RunEnd(t, b, "\\s")
        dot == RunEnd(t, d1, "\\d")
        d2 == RunEnd(t, dot + 1, "\\d")
    IN IF dot > d1 /\ At(t, dot) = "." /\ d2 > dot + 1
       THEN RunEnd(t, RunEnd(t, d2, "[\\s.]"), "[^\\n]") ELSE -1

\* \s*(?:Purpose|...|Legal)[\s:]*[^\n]* matched at offset b
EditorHeadingEnd(t, b) ==
    LET kw == AltEnd(t, RunEnd(t, b, "\\s"), editor_heading_words, 1)
    IN IF kw >= 0 THEN RunEnd(t, RunEnd(t, kw, "[\\s:]"), "[^\\n]") ELSE -1

\* the end of pattern number k of _split_into_sections matched with its
\* (?:\n|^) at offset o
EditorPatternEnd(t, k, o) ==
    LET b == IF o = 0 /\ At(t, o) # "\n" THEN 0 ELSE o + 1
    IN IF ~(o = 0 \/ At(t, o) = "\n") THEN -1
       ELSE CASE k = 1 -> EditorSectionEnd(t, b)
              [] k = 2 -> EditorDecimalEnd(t, b)
              [] k = 3 -> EditorHeadingEnd(t, b)

\* the starts of re.finditer(pattern k, t) over the offsets where a match
\* can start; a start before the end of the previous match is passed over
RECURSIVE EditorFindIter(_, _, _, _, _)
EditorFindIter(t, k, starts, i, from) ==
    IF i > Len(starts) THEN {}
    ELSE UNION { IF e >= 0 THEN {starts[i]} \cup EditorFindIter(t, k, starts, i + 1, Max(e, starts[i] + 1))
                 ELSE EditorFindIter(t, k, starts, i + 1, from)
                 : e \in { IF starts[i] >= from THEN EditorPatternEnd(t, k, starts[i]) ELSE -1 } }

\* split_indices: 0, every later match start, and len(text)
SplitIndicesFrom(t, starts) ==
    Sorted({0} \cup UNION { EditorFindIter(t, k, starts, 1, 0) : k \in 1..3 } \cup {Len(t)})

\* the blocks between consecutive indices, stripped, those of more than two
\* characters only
RECURSIVE BlocksBetween(_, _, _)
BlocksBetween(t, indices, i) ==
    IF i >= Len(indices) THEN <<>>
    ELSE LET block == Strip(Slice(t, indices[i], indices[i + 1]))
         IN (IF Len(block) > 2 THEN <<block>> ELSE <<>>) \o BlocksBetween(t, indices, i + 1)

\* [p.strip() for p in text.split("\n\n") if p.strip()]
StrippedParagraphs(text) ==
    LET stripped == [ k \in 1..Len(Split(text, "\n\n")) |-> Strip(Split(text, "\n\n")[k]) ]
    IN SelectSeq(stripped, LAMBDA p : p # "")

\* the sections of the stripped text, or its paragraphs when no block is
\* long enough
SectionsOfStripped(t) ==
    LET blocks == BlocksBetween(t, SplitIndicesFrom(t, StartOffsets(t)), 1)
    IN IF blocks # <<>> THEN blocks ELSE StrippedParagraphs(t)

\* _split_into_sections(text)
split_into_sections(text) ==
    IF text \in {None, ""} \/ Strip(text) = "" THEN <<>> ELSE SectionsOfStripped(Strip(text))

\* re.sub(r"\s+", " ", t): every run of whitespace becomes one space
RECURSIVE CollapseSpaces(_, _)
CollapseSpaces(t, o) ==
    IF o >= Len(t) THEN ""
    ELSE IF IsSpace(At(t, o)) THEN " " \o CollapseSpaces(t, RunEnd(t, o, "\\s"))
    ELSE Slice(t, o, RunEnd(t, o, "\\S")) \o CollapseSpaces(t, RunEnd(t, o, "\\S"))

\* _normalize_for_match(s)
normalize_for_match(s) ==
    IF s \in {None, ""} THEN "" ELSE Prefix(CollapseSpaces(Strip(Lower(s)), 0), 80)

\* the words of the normalized area of more than one character, a "/"
\* separating words as a space does
AreaWords(area_norm) ==
    { w \in Range(Split(Replace(area_norm, "/", " "), " ")) : Len(w) > 1 }

\* the first index (from 0) of the highest count of area words held by the
\* normalized first 200 characters of a section; 0 when no word is held
RECURSIVE BestSectionFrom(_, _, _, _, _)
BestSectionFrom(doc_sections, words, i, best_idx, best_score) ==
    IF i > Len(doc_sections) THEN best_idx
    ELSE LET sec_norm == normalize_for_match(Prefix(doc_sections[i], 200))
             score == Cardinality({ w \in words : Contains(sec_norm, w) })
         IN IF score > best_score
            THEN BestSectionFrom(doc_sections, words, i + 1, i - 1, score)
            ELSE BestSectionFrom(doc_sections, words, i + 1, best_idx, best_score)

\* _find_section_index_for_area(doc_sections, area)
find_section_index_for_area(doc_sections, area) ==
    BestSectionFrom(doc_sections, AreaWords(normalize_for_match(area)), 1, 0, 0)

\* _normalize_spacing(text)
normalize_spacing(text) ==
    IF text \in {None, ""} THEN text ELSE Join(StrippedParagraphs(text), "\n\n")

\* the area an approved change is filed under: its area, or its key, up to
\* the first underscore
AreaOfChange(change) ==
    Strip(Split(IF change.data.area \in {None, ""} THEN change.key ELSE change.data.area, "_")[1])

\* insertions_by_section: the (area, suggestion) pairs to insert after each
\* section, in the order of the approved changes; a change without
\* suggestion is passed over
InsertionsAfter(doc_sections, approved_changes, idx) ==
    LET kept == SelectSeq(approved_changes,
                    LAMBDA c : /\ c.data.suggestion \notin {None, ""}
                               /\ Strip(c.data.suggestion) # ""
                               /\ find_section_index_for_area(doc_sections, AreaOfChange(c)) = idx)
    IN [ k \in 1..Len(kept) |-> [ area |-> AreaOfChange(kept[k]),
                                  suggestion |-> Strip(kept[k].data.suggestion) ] ]

\* the parts appended for the insertions after one section
RECURSIVE AdditionParts(_)
AdditionParts(insertions) ==
    IF insertions = <<>> THEN <<>>
    ELSE << "", Strip(ADDITION_SEPARATOR), ADDITION_HEADER \o " - " \o insertions[1].area,
            "", insertions[1].suggestion, "" >> \o AdditionParts(Tail(insertions))

\* result_parts: each section, then the additions for it
RECURSIVE ResultParts(_, _, _)
ResultParts(doc_sections, approved_changes, i) ==
    IF i > Len(doc_sections) THEN <<>>
    ELSE <<Strip(doc_sections[i])>>
         \o AdditionParts(InsertionsAfter(doc_sections, approved_changes, i - 1))
         \o ResultParts(doc_sections, approved_changes, i + 1)

\* the result when there are changes: the normalized text when the text has
\* no section
UpdatedFrom(sop_text, doc_sections, approved_changes) ==
    IF doc_sections = <<>> THEN normalize_spacing(sop_text)
    ELSE Join(ResultParts(doc_sections, approved_changes, 1), "\n\n")

\* build_updated_text_with_additions(sop_text, approved_changes), the dict
\* of approved changes as its (key, data) items in insertion order
build_updated_text_with_additions(sop_text, approved_changes) ==
    IF sop_text \in {None, ""} \/ Strip(sop_text) = "" THEN sop_text
    ELSE IF approved_changes = <<>> THEN normalize_spacing(sop_text)
    ELSE UpdatedFrom(sop_text, split_into_sections(sop_text), approved_changes)

\* ------------------------------------------------------------------------
\* The updated document built for texts written block by block and changes
\* approved one by one
\* ------------------------------------------------------------------------

\* blocks of text a document is written from, and what separates them
EditorBlocks ==
    { "OK", "Section 1: Access\nOwner reviews.", "1.1 Scope\nAll staff." }

BlockSeparators == { "\n", "\n\n" }

\* the approved changes a reviewer can add: key and data of the dict item
ApprovableChanges ==
    { [ key |-> "Section 1: Access_0",
        data |-> [ area |-> "Section 1: Access", suggestion |-> "Review yearly." ] ],
      [ key |-> "1.1 Scope_1",
        data |-> [ area |-> "1.1 Scope", suggestion |-> " Limit use. " ] ],
      [ key |-> "Records_2", data |-> [ area |-> None, suggestion |-> "" ] ] }

\* the blocks written and the changes approved in a run
MaxBlocks == 2

MaxChanges == 2

EditInit ==
    /\ session = [ sop_text |-> "", approved_changes |-> <<>> ]
    /\ call = [ op |-> "write", blocks |-> 0 ]
    /\ result = Idle
    /\ trace = Idle
    /\ history_file = NoFile
    /\ host = Idle
    /\ rag = NewEngine
    /\ indexings = 0
    /\ sections = <<>>
    /\ sarg = Idle
    /\ sscore = 0
    /\ slast = Idle

\* a block is written at the end of the document
WriteBlock ==
    \E block \in EditorBlocks, sep \in BlockSeparators :
        /\ call.op = "write"
        /\ call.blocks < MaxBlocks
        /\ session.sop_text = "" => sep = "\n"
        /\ session' = [ session EXCEPT !.sop_text =
                            IF @ = "" THEN block ELSE @ \o sep \o block ]
        /\ call' = [ call EXCEPT !.blocks = @ + 1 ]
        /\ UNCHANGED <<result, trace, history_file, host, rag, indexings, sections, scoreVars>>

\* a change not yet approved is approved: a new item at the end of the dict
ApproveSuggestion ==
    \E change \in ApprovableChanges :
        /\ call.op \in {"write", "approve"}
        /\ Len(session.approved_changes) < MaxChanges
        /\ \A k \in 1..Len(session.approved_changes) : session.approved_changes[k].key # change.key
        /\ session' = [ session EXCEPT !.approved_changes = Append(@, change) ]
        /\ call' = [ op |-> "approve", blocks |-> call.blocks ]
        /\ UNCHANGED <<result, trace, history_file, host, rag, indexings, sections, scoreVars>>

\* the updated document is built
BuildUpdated ==
    /\ call.op \in {"write", "approve"}
    /\ call' = [ op |-> "build", blocks |-> call.blocks ]
    /\ result' = [ text |-> build_updated_text_with_additions(session.sop_text,
                                                              session.approved_changes) ]
    /\ UNCHANGED <<session, trace, history_file, host, rag, indexings, sections, scoreVars>>

EditNext == WriteBlock \/ ApproveSuggestion \/ BuildUpdated

EditSpec == EditInit /\ [][EditNext]_vars

\* the text without its whitespace
RECURSIVE Squeeze(_, _)
Squeeze(t, o) ==
    IF o >= Len(t) THEN ""
    ELSE IF IsSpace(At(t, o)) THEN Squeeze(t, RunEnd(t, o, "\\s"))
    ELSE Slice(t, o, RunEnd(t, o, "\\S")) \o Squeeze(t, RunEnd(t, o, "\\S"))

\* the stripped suggestions of the approved changes
SuggestionsOf(approved_changes) ==
    { Strip(approved_changes[k].data.suggestion) : k \in 1..Len(approved_changes) }

\* the parts of an output between blank lines without its labelled
\* additions: an empty part, the rule, the header with an area, an empty
\* part, an approved suggestion and an empty part
RECURSIVE WithoutAdditions(_, _, _)
WithoutAdditions(parts, suggestions, i) ==
    IF i > Len(parts) THEN ""
    ELSE IF /\ i + 5 <= Len(parts)
            /\ parts[i] = ""
            /\ parts[i + 1] = ADDITION_RULE
            /\ StartsWith(parts[i + 2], ADDITION_HEADER \o " - ")
            /\ parts[i + 3] = ""
            /\ parts[i + 4] \in suggestions
            /\ parts[i + 5] = ""
         THEN WithoutAdditions(parts, suggestions, i + 6)
         ELSE parts[i] \o " " \o WithoutAdditions(parts, suggestions, i + 1)

\* the output is the original text, whitespace apart, once its labelled
\* additions are taken out
OriginalKept(sop_text, approved_changes, output) ==
    Squeeze(WithoutAdditions(Split(output, "\n\n"), SuggestionsOf(approved_changes), 1), 0)
        = Squeeze(sop_text, 0)

\* C21: for every non-empty text and all approved changes the updated
\* document holds every part of the original text, unchanged and in order,
\* and nothing else but the labelled additions
OriginalPreserved ==
    (call.op = "build" /\ Strip(session.sop_text) # "")
        => OriginalKept(session.sop_text, session.approved_changes, result.text)

\* a block of at most two characters lies between two split indices
RECURSIVE HasShortBlock(_, _, _)
HasShortBlock(t, indices, i) ==
    /\ i < Len(indices)
    /\ \/ Len(Strip(Slice(t, indices[i], indices[i + 1]))) \in 1..2
       \/ HasShortBlock(t, indices, i + 1)

\* the original is preserved when no block between two headings has fewer
\* than three characters, or when there is nothing to add
OriginalPreservedLongBlocks ==
    ( /\ call.op = "build"
      /\ Strip(session.sop_text) # ""
      /\ \/ session.approved_changes = <<>>
         \/ ~HasShortBlock(Strip(session.sop_text),
                           SplitIndicesFrom(Strip(session.sop_text), StartOffsets(Strip(session.sop_text))), 1) )
        => OriginalKept(session.sop_text, session.approved_changes, result.text)

\* an updated document with an addition between two sections
AdditionBetweenSections ==
    /\ call.op = "build"
    /\ Len(split_into_sections(session.sop_text)) = 2
    /\ Len(session.approved_changes) = 2
    /\ OriginalKept(session.sop_text, session.approved_changes, result.text)
    /\ result.text # normalize_spacing(session.sop_text)

\* ------------------------------------------------------------------------
\* The clause matching of compare_sop_documents (modules/sop_comparator.py):
\* the greedy loop over the rows of the similarity matrix, one row for each
\* AI clause and one column for each human clause
\* ------------------------------------------------------------------------

\* cosine similarities an entry of the matrix is drawn from: 0.2 and 0.9
SimilarityGrid == { (2 * FP) \div 10, (9 * FP) \div 10 }

\* the most AI clauses and human clauses of a comparison
MaxAiClauses == 3

MaxHumanClauses == 2

\* the matrices of cosine_similarity(X_ai, X_hu): both documents gave clauses
SimilarityMatrices ==
    UNION { [ 1..n_ai -> [ 1..n_hu -> SimilarityGrid ] ] :
                n_ai \in 1..MaxAiClauses, n_hu \in 1..MaxHumanClauses }

\* int(np.argmax(row)): the first index (from 0) of the largest entry
Argmax(row) ==
    (CHOOSE j \in DOMAIN row :
        /\ \A k \in DOMAIN row : row[k] <= row[j]
        /\ \A k \in DOMAIN row : k < j => row[k] < row[j]) - 1

\* the first index of `order` (indices from 1) that is not matched yet, as
\* an index from 0; -1 when every one is matched
NextBest(order, matched_hu) ==
    IF \A k \in DOMAIN order : order[k] - 1 \in matched_hu THEN -1
    ELSE order[CHOOSE k \in DOMAIN order :
                  /\ order[k] - 1 \notin matched_hu
                  /\ \A l \in DOMAIN order : l < k => order[l] - 1 \in matched_hu] - 1

\* the human clause one pass of the loop takes for a row: the best one, or
\* when that is taken the next best not taken, or the best one again when
\* all are taken
Matched(row, matched_hu, order) ==
    IF Argmax(row) \notin matched_hu THEN Argmax(row)
    ELSE IF NextBest(order, matched_hu) >= 0 THEN NextBest(order, matched_hu)
    ELSE Argmax(row)

MatchInit ==
    /\ call \in { [ op |-> "match", sim |-> sim, i |-> 0 ] : sim \in SimilarityMatrices }
    /\ result = [ pairs |-> <<>>, matched_hu |-> {} ]
    /\ trace = Idle
    /\ rag = NewEngine
    /\ indexings = 0
    /\ sections = <<>>
    /\ sarg = Idle
    /\ sscore = 0
    /\ slast = Idle
    /\ AppUnused

\* one pass of the loop `for i in range(sim.shape[0])`
MatchClause ==
    /\ call.op = "match"
    /\ call.i < Len(call.sim)
    /\ \E order \in DescendingOrders(call.sim[call.i + 1]) :
          \E j \in { Matched(call.sim[call.i + 1], result.matched_hu, order) } :
              result' = [ pairs |-> Append(result.pairs,
                                           [ i |-> call.i, j |-> j, score |-> call.sim[call.i + 1][j + 1] ]),
                          matched_hu |-> result.matched_hu \cup {j} ]
    /\ call' = [ call EXCEPT !.i = @ + 1 ]
    /\ UNCHANGED <<trace, rag, indexings, sections, scoreVars, appVars>>

\* the loop is over: the report carries the counts
ReportMatching ==
    /\ call.op = "match"
    /\ call.i = Len(call.sim)
    /\ call' = [ call EXCEPT !.op = "compared" ]
    /\ result' = [ pairs |-> result.pairs,
                   matched_hu |-> result.matched_hu,
                   meta |-> [ ai_clauses |-> Len(call.sim),
                              human_clauses |-> Len(call.sim[1]),
                              matched_pairs |-> Len(result.pairs) ] ]
    /\ UNCHANGED <<trace, rag, indexings, sections, scoreVars, appVars>>

MatchNext == MatchClause \/ ReportMatching

MatchSpec == MatchInit /\ [][MatchNext]_vars

\* C26: whatever the numbers of AI and human clauses, no two pairs of the
\* matching have the same human clause index
HumanClauseOnce ==
    \A p, q \in 1..Len(result.pairs) : p # q => result.pairs[p].j # result.pairs[q].j

\* the same while there are no more AI clauses than human clauses
HumanClauseOnceWhenEnough ==
    Len(call.sim) <= Len(call.sim[1]) =>
        \A p, q \in 1..Len(result.pairs) : p # q => result.pairs[p].j # result.pairs[q].j

\* with more AI clauses than human clauses every pass after the last human
\* clause was taken takes the best one again
RepeatsOnlyWhenAllTaken ==
    \A p, q \in 1..Len(result.pairs) :
        (p < q /\ result.pairs[p].j = result.pairs[q].j) => q > Len(call.sim[1])

\* a matching where the second AI clause had to take its next best
TookNextBest ==
    /\ call.op = "compared"
    /\ Len(result.pairs) = 2
    /\ result.pairs[1].j # result.pairs[2].j
    /\ result.pairs[2].j # Argmax(call.sim[2])

\* ------------------------------------------------------------------------
\* The workflow pages of app.py: the analysis page, which runs the analysis,
\* looks up where each finding lies in the document and saves the analysis
\* to the history, and the results page with its approve and reject buttons
\* ------------------------------------------------------------------------

\* a None where a page or a line number is expected
NoNumber == -1

\* re.findall(r"[A-Za-z0-9][A-Za-z0-9\-_/]{2,}", t): the runs of at least
\* three word characters that start with a letter or a digit
RECURSIVE WordRuns(_, _)
WordRuns(t, o) ==
    IF o >= Len(t) THEN <<>>
    ELSE IF ~InClass("[A-Za-z0-9]", At(t, o)) THEN WordRuns(t, RunEnd(t, o, "[^A-Za-z0-9]"))
    ELSE IF RunEnd(t, o, "[A-Za-z0-9\\-_/]") - o >= 3
         THEN <<Slice(t, o, RunEnd(t, o, "[A-Za-z0-9\\-_/]"))>>
              \o WordRuns(t, RunEnd(t, o, "[A-Za-z0-9\\-_/]"))
         ELSE WordRuns(t, RunEnd(t, o, "[A-Za-z0-9\\-_/]"))

\* the words _find_doc_location does not look for
location_stop_words ==
    { "the", "and", "for", "with", "that", "this", "from", "into", "your", "you", "are",
      "was", "were", "will", "shall", "should", "must", "may", "can", "a", "an", "to", "of",
      "in", "on", "at", "as", "by", "or", "is", "it", "be", "not", "review", "add",
      "document", "procedures", "procedure", "policy", "section" }

\* the items of a list without repetitions, in the order of first occurrence
RECURSIVE Unrepeated(_, _)
Unrepeated(items, seen) ==
    IF items = <<>> THEN <<>>
    ELSE IF items[1] \in seen THEN Unrepeated(Tail(items), seen)
    ELSE <<items[1]>> \o Unrepeated(Tail(items), seen \cup {items[1]})

\* _tokens(text): the first twenty distinct words of four characters or more
\* that are not stop words
LocationTokens(text) ==
    IF text \in {None, ""} THEN <<>>
    ELSE Take(Unrepeated(SelectSeq(WordRuns(Lower(text), 0),
                                   LAMBDA w : w \notin location_stop_words /\ Len(w) >= 4), {}), 20)

\* the tokens of issue, suggestion and area, in that order
SearchTokens(area, issue, suggestion) ==
    Take(Unrepeated(LocationTokens(issue) \o LocationTokens(suggestion) \o LocationTokens(area), {}), 20)

\* _score_line(line): two for each token the line holds, five more when it
\* holds the whole issue
ScoreLine(line, tokens, issue) ==
    IF Strip(line) = "" THEN 0
    ELSE 2 * Cardinality({ k \in 1..Len(tokens) : Contains(Lower(line), tokens[k]) })
         + (IF issue \notin {None, ""} /\ Strip(issue) # "" /\ Contains(Lower(line), Lower(Strip(issue)))
            THEN 5 ELSE 0)

\* text.splitlines() for texts whose line breaks are "\n"
SplitLines(text) ==
    IF text = "" THEN <<>>
    ELSE IF At(text, Len(text) - 1) = "\n" THEN Split(Slice(text, 0, Len(text) - 1), "\n")
    ELSE Split(text, "\n")

\* the first line (from 1) of the highest score above 0, 0 when none scores
BestLine(lines, tokens, issue) ==
    LET scores == [ k \in 1..Len(lines) |-> ScoreLine(lines[k], tokens, issue) ]
    IN IF \A k \in 1..Len(lines) : scores[k] = 0 THEN 0
       ELSE CHOOSE k \in 1..Len(lines) :
                /\ \A j \in 1..Len(lines) : scores[j] <= scores[k]
                /\ \A j \in 1..k - 1 : scores[j] < scores[k]

\* the best line of each page: page, line, score and stripped text
PageBests(sop_pages, tokens, issue) ==
    [ p \in 1..Len(sop_pages) |->
        LET lines == SplitLines(sop_pages[p])
            best == BestLine(lines, tokens, issue)
        IN [ page |-> p, line |-> best,
             score |-> IF best = 0 THEN 0 ELSE ScoreLine(lines[best], tokens, issue),
             text |-> IF best = 0 THEN "" ELSE Strip(lines[best]) ] ]

\* the first non-empty line of the text, or nothing
FirstLine(lines) ==
    IF \A k \in 1..Len(lines) : Strip(lines[k]) = ""
    THEN [ page |-> NoNumber, line |-> NoNumber, text |-> "" ]
    ELSE LET first == CHOOSE k \in 1..Len(lines) :
                          /\ Strip(lines[k]) # ""
                          /\ \A j \in 1..k - 1 : Strip(lines[j]) = ""
         IN [ page |-> NoNumber, line |-> first, text |-> Strip(lines[first]) ]

\* the fallback of _find_doc_location: the best line of the whole text, or
\* its first non-empty line
LocationInText(lines, tokens, issue) ==
    LET best == BestLine(lines, tokens, issue)
    IN IF best > 0 THEN [ page |-> NoNumber, line |-> best, text |-> Strip(lines[best]) ]
       ELSE FirstLine(lines)

\* the best line over the pages: the first page whose best line has the
\* highest score above 0
LocationInPages(bests, sop_text, tokens, issue) ==
    IF \A p \in 1..Len(bests) : bests[p].score = 0
    THEN LocationInText(SplitLines(sop_text), tokens, issue)
    ELSE LET p == CHOOSE q \in 1..Len(bests) :
                      /\ \A r \in 1..Len(bests) : bests[r].score <= bests[q].score
                      /\ \A r \in 1..q - 1 : bests[r].score < bests[q].score
         IN [ page |-> p, line |-> bests[p].line, text |-> bests[p].text ]

\* _find_doc_location(area, issue, suggestion, sop_text, sop_pages); no
\* pages (None, or an empty list) are the empty list
find_doc_location(area, issue, suggestion, sop_text, sop_pages) ==
    IF sop_text \in {None, ""} THEN [ page |-> NoNumber, line |-> NoNumber, text |-> "" ]
    ELSE IF sop_pages = <<>>
         THEN LocationInText(SplitLines(sop_text), SearchTokens(area, issue, suggestion), issue)
         ELSE LocationInPages(PageBests(sop_pages, SearchTokens(area, issue, suggestion), issue),
                              sop_text, SearchTokens(area, issue, suggestion), issue)

\* f.get(key) is a number, f.get("text") is a non-empty text
HasNumber(f, key) == key \in DOMAIN f /\ f[key] # NoNumber

HasText(f) == "text" \in DOMAIN f /\ f["text"] \notin {None, ""}

\* the finding after the location loop of render_analysis, given the
\* location found for it: page, line and text are set where they are missing
WithLocation(f, location) ==
    IF HasNumber(f, "page") /\ HasNumber(f, "line") /\ HasText(f) THEN f
    ELSE (IF HasNumber(f, "page") THEN <<>> ELSE [ page |-> location.page ])
         @@ (IF HasNumber(f, "line") THEN <<>> ELSE [ line |-> location.line ])
         @@ (IF HasText(f) /\ f["text"] # "N/A" THEN <<>> ELSE [ text |-> location.text ])
         @@ f

\* the findings after the location loop
RECURSIVE Located(_, _, _)
Located(findings, sop_text, sop_pages) ==
    IF findings = <<>> THEN <<>>
    ELSE << WithLocation(findings[1],
                         find_doc_location(findings[1].area, findings[1].issue,
                                           findings[1].suggestion, sop_text, sop_pages)) >>
         \o Located(Tail(findings), sop_text, sop_pages)

\* a dict held as its items in insertion order: d[key] = data, del d[key],
\* key in d
DictSet(items, key, data) ==
    IF \E k \in 1..Len(items) : items[k].key = key
    THEN [ k \in 1..Len(items) |-> IF items[k].key = key THEN [ key |-> key, data |-> data ]
                                   ELSE items[k] ]
    ELSE Append(items, [ key |-> key, data |-> data ])

DictDel(items, key) == SelectSeq(items, LAMBDA item : item.key # key)

DictHas(items, key) == \E k \in 1..Len(items) : items[k].key = key

\* finding_key = f"{area}_{i}"
FindingKey(f, i) == f.area \o "_" \o ToString(i)

\* the results page shows the buttons of a finding: it has a suggestion, and
\* not the one that says there is nothing to change
SuggestionShown(f) ==
    /\ f.suggestion \notin {None, ""}
    /\ Lower(f.suggestion) \notin {"no change needed", "none"}

\* what a button stores for the finding
ChangeOf(f, stamp, now) ==
    [ key \in {"suggestion", stamp, "area", "issue", "status", "risk_level"} |->
        IF key = stamp THEN now ELSE f[key] ]

\* 'Approve change' that leaves the rejection in place
ApprovedOnly(state, f, i, now) ==
    [ state EXCEPT !.approved_changes = DictSet(@, FindingKey(f, i), ChangeOf(f, "approved_at", now)) ]

\* 'Approve change' on finding i (from 0): the change is stored among the
\* approved ones and taken out of the rejected ones
Approved(state, f, i, now) ==
    [ state EXCEPT !.approved_changes = DictSet(@, FindingKey(f, i), ChangeOf(f, "approved_at", now)),
                   !.rejected_changes = DictDel(@, FindingKey(f, i)) ]

\* 'Reject change' on finding i
Rejected(state, f, i, now) ==
    [ state EXCEPT !.rejected_changes = DictSet(@, FindingKey(f, i), ChangeOf(f, "rejected_at", now)),
                   !.approved_changes = DictDel(@, FindingKey(f, i)) ]

\* the Action column of _generate_excel_export, a row for each finding
ExportedActions(findings, approved_changes, rejected_changes) ==
    [ k \in 1..Len(findings) |->
        [ finding_key |-> FindingKey(findings[k], k - 1),
          action |-> IF DictHas(approved_changes, FindingKey(findings[k], k - 1)) THEN "Approve"
                     ELSE IF DictHas(rejected_changes, FindingKey(findings[k], k - 1)) THEN "Reject"
                     ELSE "Pending" ] ]

\* the documents uploaded: a PDF of two pages and a text file
Uploads ==
    { [ name |-> "policy.pdf", text |-> AuditSection \o FormerSection,
        pages |-> <<AuditSection, FormerSection>> ],
      [ name |-> "manual.docx", text |-> VisitorsSection \o ParkingSection, pages |-> <<>> ] }

\* the session once a document is uploaded and checked and the regulations
\* are fetched and indexed; maps left by an earlier analysis stay
Uploaded(state, upload) ==
    [ state EXCEPT !.sop_text = upload.text,
                   !.sop_pages = upload.pages,
                   !.uploaded_file_name = upload.name,
                   !.document_domain = None,
                   !.current_step = "analyze" ]

\* render_analysis up to the history: what the analysis returns for the
\* document with the indexed regulations, and its findings after the
\* location loop.  Both are pure; they are tabulated over the uploads so
\* that each is computed once
AnalysisOf(upload) ==
    LET out == AnalyzedWithoutAI(upload.text, DocumentMatches(upload.text, IndexedEngine),
                                 IndexedEngine)
    IN [ sop_text |-> upload.text, sop_pages |-> upload.pages,
         report |-> out.report, sections |-> out.sections,
         located |-> Located(out.report.findings, upload.text, upload.pages) ]

AnalysisTable == { AnalysisOf(upload) : upload \in Uploads }

\* the row of the table for the document the session holds
AnalysisFor(state) ==
    CHOOSE row \in AnalysisTable :
        row.sop_text = state.sop_text /\ row.sop_pages = state.sop_pages

\* init_session_state
SessionDefaults ==
    [ sop_text |-> None, sop_pages |-> <<>>, uploaded_file_name |-> None,
      document_domain |-> None, full_document_analysis |-> Nothing,
      approved_changes |-> <<>>, rejected_changes |-> <<>>,
      analysis_complete |-> FALSE, current_step |-> "upload" ]

\* the log of a run: the analyses run, and the last button pressed on each
\* finding key since the session was started
NoReview == [ runs |-> 0, last |-> {} ]

\* the log after a button is pressed on a key: the button, and the one
\* pressed on that key before
Pressed(last, key, action) ==
    { l \in last : l.key # key }
    \cup { [ key |-> key, action |-> action,
             before |-> IF \E l \in last : l.key = key
                        THEN (CHOOSE l \in last : l.key = key).action ELSE "Pending" ] }

\* most analyses run in a session
MaxRuns == 2

ReviewInit ==
    /\ session \in { Uploaded(SessionDefaults, upload) : upload \in Uploads }
    /\ history_file = NoFile
    /\ host \in { [ now |-> 0, str_hash |-> h ] : h \in StrHashes }
    /\ rag = IndexedEngine
    /\ indexings = 1
    /\ call = Idle
    /\ result = Idle
    /\ trace = NoReview
    /\ sections = <<>>
    /\ sarg = Idle
    /\ sscore = 0
    /\ slast = Idle

\* render_analysis with no language model configured: the analysis is run,
\* the findings are given their location, the analysis is saved to the
\* history and the results page is next.  The clock stands at the time the
\* session began
RenderAnalysis ==
    \E outcome \in {"written", "failed"} :
        /\ session.current_step = "analyze"
        /\ ~session.analysis_complete
        /\ session.sop_text \notin {None, ""}
        /\ trace.runs < MaxRuns
        /\ \E out \in { AnalysisFor(session) } :
           \E analysis \in { [ out.report EXCEPT !.findings = out.located ] } :
              /\ result' = out.report
              /\ sections' = out.sections
              /\ session' = [ session EXCEPT !.full_document_analysis = analysis,
                                             !.analysis_complete = TRUE,
                                             !.current_step = "results" ]
              /\ history_file' =
                    save_analysis_history(history_file,
                        [ document_name |-> IF session.uploaded_file_name = None THEN "Sample SOP"
                                            ELSE session.uploaded_file_name,
                          domain |-> session.document_domain,
                          compliance_score |-> analysis.overall_score,
                          risk_level |-> analysis.overall_risk_level,
                          analysis_method |-> analysis.analysis_method,
                          num_findings |-> Len(analysis.findings),
                          sop_text_preview |-> Prefix(session.sop_text, 200),
                          full_analysis |-> analysis,
                          sop_text |-> session.sop_text,
                          regulations |-> <<AccessRule, PrivacyRule>> ],
                        host.str_hash[session.uploaded_file_name], host.now, host.now,
                        outcome).file
        /\ call' = [ op |-> "analyze", outcome |-> outcome ]
        /\ trace' = [ trace EXCEPT !.runs = @ + 1 ]
        /\ UNCHANGED <<host, rag, indexings, scoreVars>>

\* the results page is shown for an analysis
OnResults == session.current_step = "results" /\ session.full_document_analysis # Nothing

\* 'Approve change' on a finding of the results page
ApproveChange ==
    /\ OnResults
    /\ \E k \in 1..Len(session.full_document_analysis.findings) :
        \E f \in { session.full_document_analysis.findings[k] } :
            /\ SuggestionShown(f)
            /\ session' = Approved(session, f, k - 1, host.now)
            /\ call' = [ op |-> "approve", index |-> k - 1 ]
            /\ trace' = [ trace EXCEPT !.last = Pressed(@, FindingKey(f, k - 1), "Approve") ]
    /\ UNCHANGED <<result, sections, history_file, host, rag, indexings, scoreVars>>

\* 'Reject change' on a finding of the results page
RejectChange ==
    /\ OnResults
    /\ \E k \in 1..Len(session.full_document_analysis.findings) :
        \E f \in { session.full_document_analysis.findings[k] } :
            /\ SuggestionShown(f)
            /\ session' = Rejected(session, f, k - 1, host.now)
            /\ call' = [ op |-> "reject", index |-> k - 1 ]
            /\ trace' = [ trace EXCEPT !.last = Pressed(@, FindingKey(f, k - 1), "Reject") ]
    /\ UNCHANGED <<result, sections, history_file, host, rag, indexings, scoreVars>>

\* the Excel sheet is generated for the results page
DownloadExcel ==
    /\ OnResults
    /\ call' = [ op |-> "export",
                 rows |-> ExportedActions(session.full_document_analysis.findings,
                                          session.approved_changes, session.rejected_changes) ]
    /\ UNCHANGED <<session, result, trace, sections, history_file, host, rag, indexings, scoreVars>>

\* 'Run analysis again'
RunAnalysisAgain ==
    /\ OnResults
    /\ session' = [ session EXCEPT !.analysis_complete = FALSE, !.current_step = "analyze" ]
    /\ call' = [ op |-> "again" ]
    /\ UNCHANGED <<result, trace, sections, history_file, host, rag, indexings, scoreVars>>

\* 'Start a new analysis', and the upload of the next document: the keys of
\* the old analysis are deleted and the defaults take their place
StartNewAnalysis ==
    \E upload \in Uploads :
        /\ OnResults
        /\ session' = Uploaded(SessionDefaults, upload)
        /\ call' = [ op |-> "new" ]
        /\ trace' = [ trace EXCEPT !.last = {} ]
        /\ UNCHANGED <<result, sections, history_file, host, rag, indexings, scoreVars>>

ReviewNext ==
    \/ RenderAnalysis
    \/ ApproveChange
    \/ RejectChange
    \/ DownloadExcel
    \/ RunAnalysisAgain
    \/ StartNewAnalysis

ReviewSpec == ReviewInit /\ [][ReviewNext]_vars

\* the report is the one the analysis returned and the session holds
ReportHeld == session.full_document_analysis # Nothing /\ result # Idle

\* C25: once analyze_full_document_compliance has returned, the findings the
\* session holds are those it returned: no step of the workflow changes or
\* adds a field of a finding, and only another run gives other findings
FindingsAsReturned ==
    ReportHeld => session.full_document_analysis.findings = result.findings

\* the fields the analysis returned keep their values; page, line and text
\* are the only fields added
OnlyLocationAdded ==
    ReportHeld =>
        /\ Len(session.full_document_analysis.findings) = Len(result.findings)
        /\ \A k \in 1..Len(result.findings) :
              /\ DOMAIN session.full_document_analysis.findings[k]
                    = DOMAIN result.findings[k] \cup {"page", "line", "text"}
              /\ \A key \in DOMAIN result.findings[k] :
                    session.full_document_analysis.findings[k][key] = result.findings[k][key]

\* once the analysis page is left no step but another run changes the report
ReportLeftAlone ==
    [][ (session.full_document_analysis # Nothing /\ session'.full_document_analysis # Nothing
            /\ session.analysis_complete = session'.analysis_complete)
          => session'.full_document_analysis = session.full_document_analysis ]_vars

\* no finding key is both approved and rejected
NoKeyInBoth ==
    \A k \in 1..Len(session.approved_changes) :
        ~DictHas(session.rejected_changes, session.approved_changes[k].key)

\* every key a button was pressed on is in the map of the last button
\* pressed on it, and in that map only
InMapOfLast ==
    \A l \in trace.last :
        /\ DictHas(session.approved_changes, l.key) <=> l.action = "Approve"
        /\ DictHas(session.rejected_changes, l.key) <=> l.action = "Reject"

\* a step of the analysis page: the analysis becomes complete
AnalysisStep == ~session.analysis_complete /\ session'.analysis_complete

\* C27: after any sequence of approvals and rejections no finding key is in
\* both maps and every key is in the map of the last action taken on it, and
\* the analysis itself adds no entry to and removes none from either map
ApprovalExclusive ==
    /\ [](NoKeyInBoth /\ InMapOfLast)
    /\ [][ AnalysisStep => /\ session'.approved_changes = session.approved_changes
                           /\ session'.rejected_changes = session.rejected_changes ]_vars

\* a finding approved after it had been rejected, another one rejected, and
\* the sheet generated since
ApprovedAfterRejected ==
    /\ call.op = "export"
    /\ \E l \in trace.last :
          /\ l.action = "Approve" /\ l.before = "Reject"
          /\ DictHas(session.approved_changes, l.key)
          /\ \E row \in Range(call.rows) : row.finding_key = l.key /\ row.action = "Approve"
    /\ \E row \in Range(call.rows) : row.action = "Reject"
====
